---- MODULE Spec2Model ----
(***************************************************************************)
(* Reward engine of canlan.org: mint blocks, weight snapshots,             *)
(* proportional reward distribution and reward claiming                    *)
(* (internal/services/node.go, BlockRewardService) over the relational     *)
(* tables mint_blocks, weight_snapshots, block_rewards, user_balances and  *)
(* combat_power.                                                           *)
(*                                                                         *)
(* Amounts are shopspring/decimal values.  The model counts every amount   *)
(* in units of 10^-Precision, the grid Decimal.Div rounds to               *)
(* (DivisionPrecision, 16 in the library), so an amount is an integer      *)
(* number of grid units.  Each database statement is one atomic step.      *)
(***************************************************************************)
EXTENDS Integers, Sequences, FiniteSets, TLC

\* ------------------------------------------------------------------ bounds
Precision  == 0    \* fractional digits of the division grid
MaxTicks   == 2    \* block-pipeline calls (CreateNewBlock, CalculateWeights, DistributeRewards)
MaxRewards == 3    \* rows of block_rewards
MaxIds     == 2    \* length of a reward_ids request
MaxCalls   == 2    \* ClaimRewards calls started
MaxFaults  == 1    \* database statements that fail
MaxBurns   == 1    \* AddBurnPower statements executed
MaxRuns    == 2    \* block-pipeline runs executed statement by statement
MaxClock   == 3    \* time units that pass
MaxOps     == 3    \* balance operations (burns, spends, credits) executed

\* ------------------------------------------------------- program constants
BlockRewardTokens == 1000
IntervalUnits == 2    \* the clock counts halves of the configured interval

Users    == {"u1", "u2", "u3"}
AllUsers == <<"u1", "u2", "u3">>
Calls    == 1..MaxCalls
Runs     == 1..MaxRuns
Ops      == 1..MaxOps

\* the ledgers the service may find when it starts: which users have a CAN row
\* in user_balances and with what balance, and their combat_power.lp_weight
NoWeight == [u \in Users |-> 0]
InitLedgers ==
    { [rows |-> {},           bal |-> NoWeight,
       lp   |-> NoWeight],
      [rows |-> {"u1", "u3"}, bal |-> [NoWeight EXCEPT !["u1"] = 1, !["u3"] = 1],
       lp   |-> [NoWeight EXCEPT !["u2"] = 1]],
      [rows |-> {"u1", "u2"}, bal |-> [NoWeight EXCEPT !["u1"] = 1],
       lp   |-> NoWeight] }
BurnAmounts == {1, 3}

RECURSIVE Pow10(_)
Pow10(n) == IF n = 0 THEN 1 ELSE 10 * Pow10(n - 1)

\* decimal.NewFromInt(1000), in grid units
BlockReward == BlockRewardTokens * Pow10(Precision)

VARIABLES
    hasBalance,   \* users that have a CAN row in user_balances
    balance,      \* user_balances.balance of the CAN row (0 when there is no row)
    lpWeight,     \* combat_power.lp_weight
    burnPower,    \* combat_power.burn_power
    blocks,       \* mint_blocks, in insertion order; the index is the row id
    snapshots,    \* weight_snapshots, in insertion order
    rewards,      \* block_rewards, in insertion order; the index is the row id
    credited,     \* history: per reward row, how often its amount was added to a balance row
    claimWrites,  \* history: per reward row, how often ClaimReward wrote it (set claimed_at)
    call,         \* per ClaimRewards call, in order of arrival: its locals
    tick,         \* NOW() of the block pipeline: number of pipeline calls so far
    nCalls,       \* ClaimRewards calls started so far
    faults,       \* failed statements so far
    burns,        \* AddBurnPower statements so far
    run,          \* per statement-by-statement pipeline run: its locals
    joined,       \* users: the ids stored
    parentID,     \* users.parent_id ("none" for NULL)
    invitedBy,    \* users.invited_by ("none" for NULL)
    personalPower,   \* combat_power.personal_power
    networkPower,    \* combat_power.network_power
    hasNode,         \* users that have a row in user_nodes
    teamPower,       \* user_nodes.team_power
    teamMembers,     \* user_nodes.team_members
    directReferrals, \* user_nodes.direct_referrals
    currentLevel,    \* user_nodes.current_level
    walk,         \* the Login call in progress: locals of updateAncestorsTeamPower
    login,        \* per new user: locals of its Login call, statement by statement
    lanBalance,   \* user_balances.balance of the LAN row
    otherBalance, \* user_balances.balance of the USDT row
    activeBadges, \* user_badges: the badges active for each user
    clock,        \* the time, in units of MintBlockInterval / IntervalUnits
    countdown,    \* what the last GetCurrentBlockAndCountdown call returned
    op            \* per balance operation (burn, spend, credit) on the CAN row: its locals

vars == <<hasBalance, balance, lpWeight, burnPower, blocks, snapshots, rewards,
          credited, claimWrites, call, tick, nCalls, faults, burns, run,
          joined, parentID, invitedBy, personalPower, networkPower, hasNode,
          teamPower, teamMembers, directReferrals, currentLevel, walk, login,
          lanBalance, otherBalance, activeBadges, clock, countdown, op>>

teamVars == <<joined, parentID, invitedBy, personalPower, networkPower, hasNode, currentLevel,
              teamPower, teamMembers, directReferrals, walk, login>>

clockVars  == <<clock, countdown>>
powerVars  == <<lanBalance, otherBalance, activeBadges>>
ledgerVars == <<hasBalance, balance, lpWeight, burnPower, burns, powerVars>>
blockVars  == <<blocks, snapshots, tick>>

\* ------------------------------------------------------------- arithmetic
\* Decimal.Div = DivRound(d2, DivisionPrecision): quotient on the grid, and
\* one grid unit more when twice the remainder reaches the divisor.
DivRound(n, d) ==
    LET q == n \div d
        r == n % d
    IN  IF 2 * r < d THEN q ELSE q + 1

RECURSIVE SeqSum(_)
SeqSum(s) == IF s = <<>> THEN 0 ELSE Head(s) + SeqSum(Tail(s))

\* userWeight := snap.TransactionWeight.Add(snap.LpWeight).Add(snap.BurnWeight)
UserWeight(snap) == snap.transactionWeight + snap.lpWeight + snap.burnWeight

\* the weights as they are stored now, one row per user, instead of the
\* rows of weight_snapshots
LiveWeights(snaps, b) ==
    [k \in 1..Len(AllUsers) |->
        [userID            |-> AllUsers[k],
         blockID           |-> b,
         transactionWeight |-> balance[AllUsers[k]],
         lpWeight          |-> lpWeight[AllUsers[k]],
         burnWeight        |-> burnPower[AllUsers[k]]]]

\* GetWeightSnapshotsByBlock
GetWeightSnapshotsByBlock(snaps, b) == SelectSeq(snaps, LAMBDA s : s.blockID = b)

\* the total taken over the current weights of all users instead
TotalWeightOfUsers(snaps) ==
    SeqSum([k \in 1..Len(AllUsers) |->
              balance[AllUsers[k]] + lpWeight[AllUsers[k]] + burnPower[AllUsers[k]]])

\* totalWeight of DistributeRewards
TotalWeight(snaps) == SeqSum([k \in 1..Len(snaps) |-> UserWeight(snaps[k])])

\* share := block.TotalReward.Mul(userWeight).Div(totalWeight)
Share(totalReward, userWeight, totalWeight) ==
    DivRound(totalReward * userWeight, totalWeight)

\* ------------------------------------------------------------------- Init
IdleCall == [pc |-> "idle", userID |-> "u1", rewardIDs |-> <<>>, i |-> 0,
             amount |-> 0, totalClaimed |-> 0, all |-> FALSE,
             startBalance |-> 0, startRows |-> 0, startClaimed |-> {},
             flipped |-> {}, faulted |-> FALSE]

IdleRun == [pc |-> "idle", op |-> "none", blockID |-> 0, nextBlockNumber |-> 0,
            k |-> 0, loaded |-> <<>>, totalWeight |-> 0, clean |-> TRUE,
            skipped |-> {}, unpaid |-> {}, passed |-> FALSE]

\* no GetCurrentBlockAndCountdown call yet; block 0 stands for nil
IdleCountdown == [pc |-> "idle", block |-> 0, remaining |-> 0, failed |-> "none"]

\* no balance operation in this slot yet
IdleOp == [pc |-> "idle", kind |-> "none", userID |-> "u1", amount |-> 0, read |-> 0]

IdleWalk == [pc |-> "idle", userID |-> "none", power |-> 0, currentID |-> "none"]

IdleLogin == [pc |-> "idle", referrer |-> "none", node |-> 0, power |-> 0,
              currentID |-> "none", overlapped |-> FALSE,
              trail |-> <<>>, failedAt |-> "none"]

NoUser   == [u \in Users |-> "none"]
NoCount  == [u \in Users |-> 0]

\* the reward engine's tables, with the ledger l
InitEngine(l) ==
    /\ run = [r \in Runs |-> IdleRun]
    /\ hasBalance = l.rows
    /\ balance = l.bal
    /\ lpWeight = l.lp
    /\ burnPower = NoWeight
    /\ burns = 0
    /\ lanBalance = NoWeight
    /\ otherBalance = NoWeight
    /\ activeBadges = [u \in Users |-> {}]
    /\ clock = 0
    /\ countdown = IdleCountdown
    /\ op = [p \in Ops |-> IdleOp]
    /\ blocks = <<>>
    /\ snapshots = <<>>
    /\ rewards = <<>>
    /\ credited = <<>>
    /\ claimWrites = <<>>
    /\ call = [p \in Calls |-> IdleCall]
    /\ tick = 0
    /\ nCalls = 0
    /\ faults = 0

\* the referral tables: no user_nodes row, no call in progress
InitNodes ==
    /\ networkPower = NoWeight
    /\ hasNode = {}
    /\ teamPower = NoWeight
    /\ teamMembers = NoCount
    /\ directReferrals = NoCount
    /\ currentLevel = NoCount
    /\ walk = IdleWalk
    /\ login = [u \in Users |-> IdleLogin]

\* every user is registered, none of them invited; personal power as
\* UpdateCombatPower last stored it
Init ==
    \E l \in InitLedgers :
        /\ InitEngine(l)
        /\ InitNodes
        /\ joined = Users
        /\ parentID = NoUser
        /\ invitedBy = NoUser
        /\ personalPower = [u \in Users |-> l.bal[u] + l.lp[u]]

\* ------------------------------------------------- block pipeline (node.go)
\* CalculateWeights, the loop over GetAllUsers: one snapshot row per user
RECURSIVE SnapshotRows(_, _)
SnapshotRows(us, b) ==
    IF us = <<>> THEN <<>>
    ELSE <<[userID            |-> Head(us),
            blockID           |-> b,
            transactionWeight |-> balance[Head(us)],
            lpWeight          |-> lpWeight[Head(us)],
            burnWeight        |-> burnPower[Head(us)]]>> \o SnapshotRows(Tail(us), b)

\* the loop without "if userWeight.IsZero() { continue }"
RECURSIVE RewardRowsAll(_, _, _)
RewardRowsAll(snaps, totalReward, totalWeight) ==
    IF snaps = <<>> THEN <<>>
    ELSE <<[userID      |-> Head(snaps).userID,
            blockID     |-> Head(snaps).blockID,
            amount      |-> Share(totalReward, UserWeight(Head(snaps)), totalWeight),
            weightValue |-> UserWeight(Head(snaps)),
            claimed     |-> FALSE]>> \o RewardRowsAll(Tail(snaps), totalReward, totalWeight)

\* DistributeRewards, the loop over the snapshots: one block_rewards row per
\* snapshot of nonzero weight
RECURSIVE RewardRows(_, _, _)
RewardRows(snaps, totalReward, totalWeight) ==
    IF snaps = <<>> THEN <<>>
    ELSE LET snap == Head(snaps)
             rest == RewardRows(Tail(snaps), totalReward, totalWeight)
         IN  IF UserWeight(snap) = 0 THEN rest
             ELSE <<[userID      |-> snap.userID,
                     blockID     |-> snap.blockID,
                     amount      |-> Share(totalReward, UserWeight(snap), totalWeight),
                     weightValue |-> UserWeight(snap),
                     claimed     |-> FALSE]>> \o rest

\* UpdateBlockDistributed
UpdateBlockDistributed(bs, b, now) ==
    [bs EXCEPT ![b].distributed = TRUE, ![b].distributedAt = now]

\* the block_rewards rows DistributeRewards(b) inserts, given the snapshot table
Distribution(bs, snaps, b) ==
    LET mine == GetWeightSnapshotsByBlock(snaps, b)
        tw   == TotalWeight(mine)
    IN  IF tw = 0 THEN <<>> ELSE RewardRows(mine, bs[b].totalReward, tw)

Zeros(n) == [k \in 1..n |-> 0]

\* the body of DistributeRewards on block table bs and snapshot table snaps
DistributeBody(bs, snaps, b, now) ==
    LET new == Distribution(bs, snaps, b)
    IN  /\ Len(rewards) + Len(new) <= MaxRewards
        /\ rewards' = rewards \o new
        /\ credited' = credited \o Zeros(Len(new))
        /\ claimWrites' = claimWrites \o Zeros(Len(new))
        /\ blocks' = UpdateBlockDistributed(bs, b, now)

DistributeRewards(b) ==
    /\ tick < MaxTicks
    /\ b \in 1..Len(blocks)
    /\ tick' = tick + 1
    /\ DistributeBody(blocks, snapshots, b, tick + 1)
    /\ UNCHANGED <<clockVars, op, teamVars, run, ledgerVars, snapshots, call, nCalls, faults>>

CalculateWeights(b) ==
    /\ tick < MaxTicks
    /\ b \in 1..Len(blocks)
    /\ tick' = tick + 1
    /\ snapshots' = snapshots \o SnapshotRows(AllUsers, b)
    /\ DistributeBody(blocks, snapshots', b, tick + 1)
    /\ UNCHANGED <<clockVars, op, teamVars, run, ledgerVars, call, nCalls, faults>>

\* GetLastMintBlock
LastBlockNumber(bs) == IF bs = <<>> THEN 0 ELSE bs[Len(bs)].blockNumber

CreateNewBlock ==
    /\ tick < MaxTicks
    /\ tick' = tick + 1
    /\ LET nextBlockNumber == LastBlockNumber(blocks) + 1
           created == Append(blocks, [blockNumber   |-> nextBlockNumber,
                                      totalReward   |-> BlockReward,
                                      createdAt     |-> clock,
                                      distributed   |-> FALSE,
                                      distributedAt |-> 0])
           b == Len(created)
       IN  /\ snapshots' = snapshots \o SnapshotRows(AllUsers, b)
           /\ DistributeBody(created, snapshots', b, tick + 1)
    /\ UNCHANGED <<clockVars, op, teamVars, run, ledgerVars, call, nCalls, faults>>

\* ------------------------------------------------ ClaimRewards (node.go)
\* the reward_ids of a request: ids of stored rows, or one id of no row
RewardIdLists ==
    LET ids == 1..(IF Len(rewards) < MaxRewards THEN Len(rewards) + 1 ELSE MaxRewards)
    IN  UNION {[1..n -> ids] : n \in 1..MaxIds}

\* next iteration of the range loop, or return totalClaimed
Advance(c) ==
    IF c.i + 1 > Len(c.rewardIDs)
    THEN [c EXCEPT !.pc = "done", !.i = c.i + 1]
    ELSE [c EXCEPT !.pc = "read", !.i = c.i + 1]

ClaimedIds == {e \in 1..Len(rewards) : rewards[e].claimed}

\* the calls between their first and their last statement
InFlightCalls == {p \in Calls : call[p].pc \in {"read", "claim", "credit"}}

ClaimStart(p, userID, rewardIDs) ==
    /\ call[p].pc = "idle"
    /\ p = nCalls + 1
    /\ nCalls' = nCalls + 1
    /\ call' = [call EXCEPT ![p] =
                  [IdleCall EXCEPT !.pc = "read", !.userID = userID,
                                   !.rewardIDs = rewardIDs, !.i = 1,
                                   !.startBalance = balance[userID],
                                   !.startRows = Len(rewards),
                                   !.startClaimed = ClaimedIds]]
    /\ UNCHANGED <<clockVars, op, teamVars, run, ledgerVars, blockVars, rewards, credited, claimWrites, faults>>

\* the test without its already-claimed half
ClaimableIgnoringClaimed(reward, userID) == reward.userID = userID

\* the test without its ownership half
ClaimableAnyOwner(reward, userID) == ~reward.claimed

\* the test of ClaimRewards that lets an entry through:
\* not (reward.UserID != userID || reward.Claimed)
Claimable(reward, userID) == reward.userID = userID /\ ~reward.claimed

\* GetBlockReward and the ownership / already-claimed test
ClaimRead(p) ==
    LET c  == call[p]
        id == c.rewardIDs[c.i]
    IN  /\ c.pc = "read"
        /\ IF id \notin 1..Len(rewards)
           THEN call' = [call EXCEPT ![p] = Advance(c)]
           ELSE IF ~Claimable(rewards[id], c.userID)
                THEN call' = [call EXCEPT ![p] = Advance(c)]
                ELSE call' = [call EXCEPT ![p] = [c EXCEPT !.pc = "claim",
                                                           !.amount = rewards[id].amount]]
        /\ UNCHANGED <<clockVars, op, teamVars, run, ledgerVars, blockVars, rewards, credited, claimWrites, nCalls, faults>>

\* ClaimReward: UPDATE block_rewards SET claimed = true WHERE id = $1 AND user_id = $2
ClaimReward(rs, id, userID) ==
    IF id \in 1..Len(rs) /\ rs[id].userID = userID
    THEN [rs EXCEPT ![id].claimed = TRUE]
    ELSE rs

ClaimUpdate(p) ==
    LET c  == call[p]
        id == c.rewardIDs[c.i]
    IN  /\ c.pc = "claim"
        /\ rewards' = ClaimReward(rewards, id, c.userID)
        /\ claimWrites' = IF id \in 1..Len(rewards) /\ rewards[id].userID = c.userID
                          THEN [claimWrites EXCEPT ![id] = claimWrites[id] + 1]
                          ELSE claimWrites
        /\ call' = [call EXCEPT ![p] = [c EXCEPT !.pc = "credit",
                                               !.flipped = IF rewards'[id].claimed /\ ~rewards[id].claimed
                                                           THEN c.flipped \cup {id} ELSE c.flipped]]
        /\ UNCHANGED <<clockVars, op, teamVars, run, ledgerVars, blockVars, credited, nCalls, faults>>

\* ClaimReward returns an error: continue
ClaimUpdateFail(p) ==
    LET c == call[p]
    IN  /\ c.pc = "claim"
        /\ faults < MaxFaults
        /\ faults' = faults + 1
        /\ call' = [call EXCEPT ![p] = [Advance(c) EXCEPT !.faulted = TRUE]]
        /\ UNCHANGED <<clockVars, op, teamVars, run, ledgerVars, blockVars, rewards, credited, claimWrites, nCalls>>

\* AddUserBalance: UPDATE user_balances SET balance = balance + $3 WHERE user_id, token_id
AddUserBalance(bal, userID, amount) ==
    IF userID \in hasBalance
    THEN [bal EXCEPT ![userID] = bal[userID] + amount]
    ELSE bal

ClaimCredit(p) ==
    LET c  == call[p]
        id == c.rewardIDs[c.i]
    IN  /\ c.pc = "credit"
        /\ balance' = AddUserBalance(balance, c.userID, c.amount)
        /\ credited' = IF c.userID \in hasBalance
                       THEN [credited EXCEPT ![id] = credited[id] + 1]
                       ELSE credited
        /\ call' = [call EXCEPT ![p] =
                      Advance([c EXCEPT !.totalClaimed = c.totalClaimed + c.amount])]
        /\ UNCHANGED <<clockVars, op, teamVars, run, hasBalance, lpWeight, burnPower, burns, blockVars, rewards, claimWrites,
                       nCalls, faults, powerVars>>

\* AddUserBalance returns an error: continue, the claim flag stays set
ClaimCreditFail(p) ==
    LET c == call[p]
    IN  /\ c.pc = "credit"
        /\ faults < MaxFaults
        /\ faults' = faults + 1
        /\ call' = [call EXCEPT ![p] = [Advance(c) EXCEPT !.faulted = TRUE]]
        /\ UNCHANGED <<clockVars, op, teamVars, run, ledgerVars, blockVars, rewards, credited, claimWrites, nCalls>>

\* ------------------------------------------------ ClaimAllRewards (node.go)
\* LIMIT 1 added to the query
GetUserUnclaimedRewardsFirst(rs, userID) ==
    LET open == {e \in 1..Len(rs) : rs[e].userID = userID /\ ~rs[e].claimed}
    IN  IF open = {} THEN {} ELSE {CHOOSE e \in open : \A f \in open : e <= f}

\* GetUserUnclaimedRewards: SELECT * FROM block_rewards WHERE user_id = $1 AND claimed = false
GetUserUnclaimedRewards(rs, userID) ==
    {e \in 1..Len(rs) : rs[e].userID = userID /\ ~rs[e].claimed}

\* the orders in which the query may return a set of rows (it has no ORDER BY)
Orderings(S) ==
    {f \in [1..Cardinality(S) -> S] : \A j, k \in 1..Cardinality(S) : j # k => f[j] # f[k]}

\* ClaimAllRewards up to its call of ClaimRewards with the ids of the rows read
ClaimAllStart(p, userID, ids) ==
    /\ InFlightCalls = {}
    /\ call[p].pc = "idle"
    /\ p = nCalls + 1
    /\ ids \in Orderings(GetUserUnclaimedRewards(rewards, userID))
    /\ nCalls' = nCalls + 1
    /\ call' = [call EXCEPT ![p] =
                  [IdleCall EXCEPT !.pc = IF ids = <<>> THEN "done" ELSE "read",
                                   !.all = TRUE,
                                   !.userID = userID,
                                   !.rewardIDs = ids, !.i = 1,
                                   !.startBalance = balance[userID],
                                   !.startRows = Len(rewards),
                                   !.startClaimed = ClaimedIds]]
    /\ UNCHANGED <<clockVars, op, teamVars, run, ledgerVars, blockVars, rewards, credited, claimWrites, faults>>

\* AddBurnPower: UPDATE combat_power SET burn_power = burn_power + $2,
\* personal_power = personal_power + $2 WHERE user_id = $1
AddBurnPower(userID, amount) ==
    /\ burns < MaxBurns
    /\ userID \in joined
    /\ burns' = burns + 1
    /\ burnPower' = [burnPower EXCEPT ![userID] = burnPower[userID] + amount]
    /\ personalPower' = [personalPower EXCEPT ![userID] = personalPower[userID] + amount]
    /\ UNCHANGED <<clockVars, op, run, hasBalance, balance, lpWeight, blockVars, rewards, credited, claimWrites,
                   call, nCalls, faults, powerVars>>
    /\ UNCHANGED <<joined, parentID, invitedBy, networkPower, hasNode, currentLevel, teamPower,
                   teamMembers, directReferrals, walk, login>>

\* --------------------------- the block pipeline, statement by statement
\* Each run is one call of CreateNewBlock, CalculateWeights or DistributeRewards
\* executed one database statement per step, so that runs interleave and a
\* process restart can end a run between two statements.
ActiveRuns == {r \in Runs : run[r].pc \in {"insert", "snap", "load", "reward", "mark"}}

\* runs start in the order of their index
NextRun(r) == run[r].pc = "idle" /\ \A q \in Runs : q < r => run[q].pc # "idle"

\* the locals of a run that starts now; history: clean records that the run
\* never overlapped another run and was not started on a distributed block
StartRun(r, rec) ==
    run' = [q \in Runs |->
              IF q = r THEN [rec EXCEPT !.clean = rec.clean /\ ActiveRuns = {}]
              ELSE IF q \in ActiveRuns THEN [run[q] EXCEPT !.clean = FALSE]
              ELSE run[q]]

\* the block_number UNIQUE constraint left out
NoUniqueViolation(bs, n) == FALSE

\* mint_blocks.block_number BIGINT UNIQUE NOT NULL
UniqueViolation(bs, n) == \E b \in 1..Len(bs) : bs[b].blockNumber = n

\* CreateNewBlock up to GetLastMintBlock: nextBlockNumber = lastBlock.BlockNumber + 1
CreateNewBlockBegin(r) ==
    /\ NextRun(r)
    /\ StartRun(r, [IdleRun EXCEPT !.pc = "insert", !.op = "create",
                                   !.nextBlockNumber = LastBlockNumber(blocks) + 1])
    /\ UNCHANGED <<clockVars, op, teamVars, ledgerVars, blockVars, rewards, credited, claimWrites, call, nCalls, faults>>

\* GetLastMintBlock returns an error: nextBlockNumber stays 1
GetLastMintBlockFail(r) ==
    /\ NextRun(r)
    /\ faults < MaxFaults
    /\ faults' = faults + 1
    /\ StartRun(r, [IdleRun EXCEPT !.pc = "insert", !.op = "create",
                                   !.nextBlockNumber = 1])
    /\ UNCHANGED <<clockVars, op, teamVars, ledgerVars, blockVars, rewards, credited, claimWrites, call, nCalls>>

\* the error of CreateMintBlock dropped: CreateNewBlock goes on to CalculateWeights
CarryOn == "snap"

\* if err != nil { return nil, fmt.Errorf("failed to create mint block: %w", err) }
ReturnError == "failed"

\* CreateMintBlock: the insert, rejected when the block number is taken
CreateMintBlock(r) ==
    LET c == run[r]
    IN  /\ c.pc = "insert"
        /\ IF UniqueViolation(blocks, c.nextBlockNumber)
           THEN /\ run' = [run EXCEPT ![r] = [c EXCEPT !.pc = ReturnError]]
                /\ blocks' = blocks
           ELSE /\ blocks' = Append(blocks, [blockNumber   |-> c.nextBlockNumber,
                                             totalReward   |-> BlockReward,
                                             createdAt     |-> clock,
                                             distributed   |-> FALSE,
                                             distributedAt |-> 0])
                /\ run' = [run EXCEPT ![r] = [c EXCEPT !.pc = "snap", !.k = 1,
                                                       !.blockID = Len(blocks) + 1]]
        /\ UNCHANGED <<clockVars, op, teamVars, ledgerVars, snapshots, tick, rewards, credited, claimWrites, call, nCalls, faults>>

\* CreateMintBlock returns another error: CreateNewBlock returns it
CreateMintBlockFail(r) ==
    LET c == run[r]
    IN  /\ c.pc = "insert"
        /\ faults < MaxFaults
        /\ faults' = faults + 1
        /\ run' = [run EXCEPT ![r] = [c EXCEPT !.pc = ReturnError]]
        /\ UNCHANGED <<clockVars, op, teamVars, ledgerVars, blockVars, rewards, credited, claimWrites, call, nCalls>>

\* CalculateWeights called on a stored block
CalculateWeightsBegin(r, b) ==
    /\ NextRun(r)
    /\ b \in 1..Len(blocks)
    /\ StartRun(r, [IdleRun EXCEPT !.pc = "snap", !.op = "weights", !.k = 1,
                                   !.blockID = b, !.clean = ~blocks[b].distributed])
    /\ UNCHANGED <<clockVars, op, teamVars, ledgerVars, blockVars, rewards, credited, claimWrites, call, nCalls, faults>>

\* DistributeRewards called on a stored block
DistributeRewardsBegin(r, b) ==
    /\ NextRun(r)
    /\ b \in 1..Len(blocks)
    /\ StartRun(r, [IdleRun EXCEPT !.pc = "load", !.op = "distribute",
                                   !.blockID = b, !.clean = ~blocks[b].distributed])
    /\ UNCHANGED <<clockVars, op, teamVars, ledgerVars, blockVars, rewards, credited, claimWrites, call, nCalls, faults>>

\* GetAllUsers returns an error: CalculateWeights returns it, and CreateNewBlock
\* drops it and returns the block
GetAllUsersFail(r) ==
    LET c == run[r]
    IN  /\ c.pc = "snap" /\ c.k = 1
        /\ faults < MaxFaults
        /\ faults' = faults + 1
        /\ run' = [run EXCEPT ![r] = [c EXCEPT !.pc = "done"]]
        /\ UNCHANGED <<clockVars, op, teamVars, ledgerVars, blockVars, rewards, credited, claimWrites, call, nCalls>>

\* the loop left after its first iteration
LoopCutShort(k) == TRUE

\* for _, user := range users: the iteration k is the last one
LoopEnds(k) == k = Len(AllUsers)

\* one iteration of the loop of CalculateWeights: CreateWeightSnapshot;
\* history: passed records that the loop has gone over every user
CreateWeightSnapshot(r) ==
    LET c == run[r]
    IN  /\ c.pc = "snap"
        /\ snapshots' = snapshots \o SnapshotRows(<<AllUsers[c.k]>>, c.blockID)
        /\ run' = [run EXCEPT ![r] =
                     IF LoopEnds(c.k)
                     THEN [c EXCEPT !.pc = "load", !.passed = (c.k = Len(AllUsers))]
                     ELSE [c EXCEPT !.k = c.k + 1]]
        /\ UNCHANGED <<clockVars, op, teamVars, ledgerVars, blocks, tick, rewards, credited, claimWrites, call, nCalls, faults>>

\* CreateWeightSnapshot returns an error: continue with the next user;
\* history: skipped records the users left without snapshot by this run
CreateWeightSnapshotFail(r) ==
    LET c == run[r]
    IN  /\ c.pc = "snap"
        /\ faults < MaxFaults
        /\ faults' = faults + 1
        /\ run' = [run EXCEPT ![r] =
                     IF LoopEnds(c.k)
                     THEN [c EXCEPT !.pc = "load", !.passed = (c.k = Len(AllUsers)),
                                    !.skipped = c.skipped \cup {AllUsers[c.k]}]
                     ELSE [c EXCEPT !.k = c.k + 1, !.skipped = c.skipped \cup {AllUsers[c.k]}]]
        /\ UNCHANGED <<clockVars, op, teamVars, ledgerVars, blockVars, rewards, credited, claimWrites, call, nCalls>>

\* DistributeRewards: GetBlockByID, GetWeightSnapshotsByBlock and the first loop
LoadSnapshots(r) ==
    LET c    == run[r]
        mine == GetWeightSnapshotsByBlock(snapshots, c.blockID)
        tw   == TotalWeight(mine)
    IN  /\ c.pc = "load"
        /\ run' = [run EXCEPT ![r] =
                     [c EXCEPT !.loaded = mine, !.totalWeight = tw, !.k = 1,
                               !.pc = IF tw = 0 THEN "mark" ELSE "reward"]]
        /\ UNCHANGED <<clockVars, op, teamVars, ledgerVars, blockVars, rewards, credited, claimWrites, call, nCalls, faults>>

\* one iteration of the second loop of DistributeRewards: CreateBlockReward
CreateBlockReward(r) ==
    LET c   == run[r]
        new == RewardRows(<<c.loaded[c.k]>>, blocks[c.blockID].totalReward, c.totalWeight)
    IN  /\ c.pc = "reward"
        /\ Len(rewards) + Len(new) <= MaxRewards
        /\ rewards' = rewards \o new
        /\ credited' = credited \o Zeros(Len(new))
        /\ claimWrites' = claimWrites \o Zeros(Len(new))
        /\ run' = [run EXCEPT ![r] =
                     IF c.k = Len(c.loaded) THEN [c EXCEPT !.pc = "mark"]
                     ELSE [c EXCEPT !.k = c.k + 1]]
        /\ UNCHANGED <<clockVars, op, teamVars, ledgerVars, blockVars, call, nCalls, faults>>

\* CreateBlockReward returns an error: continue with the next snapshot;
\* history: unpaid records the users whose entry this run failed to store
CreateBlockRewardFail(r) ==
    LET c == run[r]
    IN  /\ c.pc = "reward"
        /\ UserWeight(c.loaded[c.k]) # 0
        /\ faults < MaxFaults
        /\ faults' = faults + 1
        /\ run' = [run EXCEPT ![r] =
                     IF c.k = Len(c.loaded)
                     THEN [c EXCEPT !.pc = "mark", !.unpaid = c.unpaid \cup {c.loaded[c.k].userID}]
                     ELSE [c EXCEPT !.k = c.k + 1, !.unpaid = c.unpaid \cup {c.loaded[c.k].userID}]]
        /\ UNCHANGED <<clockVars, op, teamVars, ledgerVars, blockVars, rewards, credited, claimWrites, call, nCalls>>

\* the last statement of DistributeRewards: UpdateBlockDistributed
MarkDistributed(r) ==
    LET c == run[r]
    IN  /\ c.pc = "mark"
        /\ tick' = tick + 1
        /\ blocks' = UpdateBlockDistributed(blocks, c.blockID, tick + 1)
        /\ run' = [run EXCEPT ![r] = [c EXCEPT !.pc = "done"]]
        /\ UNCHANGED <<clockVars, op, teamVars, ledgerVars, snapshots, rewards, credited, claimWrites, call, nCalls, faults>>

\* the process restarts: the run ends between two statements
Interrupt(r) ==
    /\ r \in ActiveRuns
    /\ run' = [run EXCEPT ![r] = [run[r] EXCEPT !.pc = "dead"]]
    /\ UNCHANGED <<clockVars, op, teamVars, ledgerVars, blockVars, rewards, credited, claimWrites, call, nCalls, faults>>

\* --------------------------------- referral network (asset.go, node.go)
RECURSIVE SetSum(_, _)
SetSum(f, S) ==
    IF S = {} THEN 0
    ELSE LET x == CHOOSE y \in S : TRUE
         IN  f[x] + SetSum(f, S \ {x})

\* the join condition of the recursive queries: u.invited_by = t OR u.parent_id = t
Children(t) == {u \in joined : invitedBy[u] = t \/ parentID[u] = t}

\* the rows of one level of team_tree, as a multiplicity per user
BaseLevel(p) == [u \in Users |-> IF u \in Children(p) THEN 1 ELSE 0]

\* team_tree without its recursive term: the direct members only
TeamTreeDirect(level, depth) == level

\* WITH RECURSIVE team_tree ... UNION ALL ...: the rows of this level and of
\* all deeper levels, duplicates kept; depth bounds the recursion of the model
RECURSIVE TeamTreeFrom(_, _)
TeamTreeFrom(level, depth) ==
    IF depth = 0 \/ \A u \in Users : level[u] = 0 THEN level
    ELSE LET next == [u \in Users |->
                        SetSum([t \in Users |-> IF u \in Children(t) THEN level[t] ELSE 0],
                               Users)]
             rest == TeamTreeFrom(next, depth - 1)
         IN  [u \in Users |-> level[u] + rest[u]]

TeamTree(p) == TeamTreeFrom(BaseLevel(p), Cardinality(Users))

\* GetTeamPower: SUM(personal_power) over the combat_power rows whose user is IN team_tree
GetTeamPower(p) == SetSum(personalPower, {u \in joined : TeamTree(p)[u] > 0})

\* GetTeamMemberCount: COUNT(*) of team_tree
GetTeamMemberCount(p) == SetSum(TeamTree(p), Users)

\* GetDirectReferralCount: COUNT(*) of users with invited_by = p
GetDirectReferralCount(p) == Cardinality({u \in joined : invitedBy[u] = p})

\* "CurrentLevel: 0, // Will be updated separately if needed"
RecalculatedLevel(p) == 0

\* RecalculateTeamStats: the three queries and UpsertUserNode, which stores
\* current_level = EXCLUDED.current_level
RecalculateTeamStats(p) ==
    /\ p \in joined
    /\ hasNode' = hasNode \cup {p}
    /\ teamPower' = [teamPower EXCEPT ![p] = GetTeamPower(p)]
    /\ teamMembers' = [teamMembers EXCEPT ![p] = GetTeamMemberCount(p)]
    /\ directReferrals' = [directReferrals EXCEPT ![p] = GetDirectReferralCount(p)]
    /\ currentLevel' = [currentLevel EXCEPT ![p] = RecalculatedLevel(p)]
    /\ UNCHANGED <<clockVars, op, ledgerVars, blockVars, rewards, credited, claimWrites, call, nCalls,
                   faults, run>>
    /\ UNCHANGED <<joined, parentID, invitedBy, personalPower, networkPower, walk, login>>

\* node_levels: the rows an administrator has created with CreateNodeLevel,
\* by level: the required team power and direct members
NodeLevels ==
    <<[requiredTeamPower |-> 0, requiredDirectMembers |-> 1],
      [requiredTeamPower |-> 1, requiredDirectMembers |-> 2]>>

\* CheckNodeUpgradeEligibility: a row only when u has a node row and the level
\* after its current level exists; eligible = team_power and direct_referrals
\* reach the requirements of that level
CheckNodeUpgradeEligibility(u) ==
    IF u \in hasNode /\ currentLevel[u] + 1 \in DOMAIN NodeLevels
    THEN LET nl == NodeLevels[currentLevel[u] + 1]
         IN  [found     |-> TRUE,
              nextLevel |-> currentLevel[u] + 1,
              eligible  |-> /\ teamPower[u] >= nl.requiredTeamPower
                            /\ directReferrals[u] >= nl.requiredDirectMembers]
    ELSE [found |-> FALSE, nextLevel |-> 0, eligible |-> FALSE]

\* UpgradeNode: returns an error when there is no eligibility row or it is not
\* eligible; else UpsertUserNode with CurrentLevel = NextLevel and the team
\* power, team members and direct referrals just read (users.node_level and
\* the withdrawal limits of GrantNodeBenefits are not part of the state here)
UpgradeNode(u) ==
    /\ u \in joined
    /\ CheckNodeUpgradeEligibility(u).found
    /\ CheckNodeUpgradeEligibility(u).eligible
    /\ currentLevel' = [currentLevel EXCEPT ![u] = CheckNodeUpgradeEligibility(u).nextLevel]
    /\ UNCHANGED <<clockVars, op, ledgerVars, blockVars, rewards, credited, claimWrites, call, nCalls,
                   faults, run>>
    /\ UNCHANGED <<joined, parentID, invitedBy, personalPower, networkPower, hasNode,
                   teamPower, teamMembers, directReferrals, walk, login>>

\* Login of a new wallet: CreateUser with parent_id = invited_by = the referrer,
\* UpsertCombatPower with zeros, and ProcessReferral up to the GetCombatPower of
\* updateAncestorsTeamPower.  ProcessReferral upserts the referrer's node with
\* only DirectReferrals set, so the other columns get their zero values.
LoginBegin(u, referrer) ==
    /\ walk.pc \in {"idle", "done"}
    /\ u \in Users \ joined
    /\ referrer \in joined \cup {"none"}
    /\ joined' = joined \cup {u}
    /\ parentID' = [parentID EXCEPT ![u] = referrer]
    /\ invitedBy' = [invitedBy EXCEPT ![u] = referrer]
    /\ personalPower' = [personalPower EXCEPT ![u] = 0]
    /\ networkPower' = [networkPower EXCEPT ![u] = 0]
    /\ login' = login
    /\ IF referrer = "none"
       THEN UNCHANGED <<hasNode, currentLevel, teamPower, teamMembers, directReferrals, walk>>
       ELSE /\ hasNode' = hasNode \cup {referrer}
            /\ directReferrals' =
                 [directReferrals EXCEPT ![referrer] =
                    (IF referrer \in hasNode THEN directReferrals[referrer] ELSE 0) + 1]
            /\ teamPower' = [teamPower EXCEPT ![referrer] = 0]
            /\ teamMembers' = [teamMembers EXCEPT ![referrer] = 0]
            /\ currentLevel' = [currentLevel EXCEPT ![referrer] = 0]
            /\ walk' = [pc |-> "add", userID |-> u, power |-> personalPower'[u],
                        currentID |-> referrer]
    /\ UNCHANGED <<clockVars, op, ledgerVars, blockVars, rewards, credited, claimWrites, call, nCalls,
                   faults, run>>

\* AddTeamPower: adds to the team_power of the node row, if there is one
AddTeamPower(tp, userID, amount) ==
    IF userID \in hasNode THEN [tp EXCEPT ![userID] = tp[userID] + amount] ELSE tp

\* the loop of updateAncestorsTeamPower, first half: AddTeamPower on currentID
WalkAdd ==
    /\ walk.pc = "add"
    /\ teamPower' = AddTeamPower(teamPower, walk.currentID, walk.power)
    /\ walk' = [walk EXCEPT !.pc = "next"]
    /\ UNCHANGED <<clockVars, op, ledgerVars, blockVars, rewards, credited, claimWrites, call, nCalls,
                   faults, run>>
    /\ UNCHANGED <<joined, parentID, invitedBy, personalPower, networkPower, hasNode, currentLevel,
                   teamMembers, directReferrals, login>>

\* second half: GetUserByID(currentID), break when there is no parent, else
\* go on with the parent
WalkNext ==
    /\ walk.pc = "next"
    /\ walk' = IF walk.currentID \notin joined \/ parentID[walk.currentID] = "none"
               THEN [walk EXCEPT !.pc = "done"]
               ELSE [walk EXCEPT !.pc = "add", !.currentID = parentID[walk.currentID]]
    /\ UNCHANGED <<clockVars, op, ledgerVars, blockVars, rewards, credited, claimWrites, call, nCalls,
                   faults, run>>
    /\ UNCHANGED <<joined, parentID, invitedBy, personalPower, networkPower, hasNode, currentLevel,
                   teamPower, teamMembers, directReferrals, login>>

\* GetTeamCombatPower: SUM(personal_power) of the users with invited_by or parent_id = u
GetTeamCombatPower(u) == SetSum(personalPower, Children(u))

\* GetUserBalances: the rows of user_balances of u, with the token symbol
GetUserBalances(u) ==
    {[symbol |-> "LAN", balance |-> lanBalance[u]],
     [symbol |-> "USDT", balance |-> otherBalance[u]]}
    \cup (IF u \in hasBalance THEN {[symbol |-> "CAN", balance |-> balance[u]]} ELSE {})

RECURSIVE BalanceSum(_)
BalanceSum(rows) ==
    IF rows = {} THEN 0
    ELSE LET b == CHOOSE x \in rows : TRUE
         IN  b.balance + BalanceSum(rows \ {b})

\* the loop over the balances: only LAN and CAN contribute
Holdings(u) == BalanceSum({b \in GetUserBalances(u) : b.symbol = "LAN" \/ b.symbol = "CAN"})

\* the loop over GetUserActiveBadges: its body is empty, multiplier stays
\* decimal.NewFromInt(1)
BadgeLoopMultiplier(u) == [num |-> 1, den |-> 1]

\* CalculatePersonalPower: basePower = holdings + lp + burn, times multiplier
CalculatePersonalPower(u) ==
    ((Holdings(u) + lpWeight[u] + burnPower[u]) * BadgeLoopMultiplier(u).num)
        \div BadgeLoopMultiplier(u).den

\* UpdateCombatPower: personal power = CalculatePersonalPower, network power =
\* GetTeamCombatPower, stored by UpsertCombatPower
UpdateCombatPower(u) ==
    /\ u \in joined
    /\ personalPower' = [personalPower EXCEPT ![u] = CalculatePersonalPower(u)]
    /\ networkPower' = [networkPower EXCEPT ![u] = GetTeamCombatPower(u)]
    /\ UNCHANGED <<clockVars, op, ledgerVars, blockVars, rewards, credited, claimWrites, call, nCalls,
                   faults, run>>
    /\ UNCHANGED <<joined, parentID, invitedBy, hasNode, currentLevel, teamPower, teamMembers,
                   directReferrals, walk, login>>

\* ------------------- Login of new wallets, statement by statement (asset.go)
\* Several Login calls run at the same time, each for its own new wallet; every
\* database statement of Login, ProcessReferral and updateAncestorsTeamPower
\* is one step.

\* a combat power row created with personal power 1 instead
DecimalOne == Pow10(Precision)

\* decimal.Zero, the PersonalPower Login stores for a new user
DecimalZero == 0

\* the Login calls between CreateUser and the end of ProcessReferral
ActiveLogins == {u \in Users : login[u].pc \in {"getnode", "upsert", "getcp", "add", "next"}}

\* CreateUser with parent_id = invited_by = the referrer found by its code, and
\* UpsertCombatPower with zeros; ProcessReferral follows when there is a referrer
CreateUser(u, referrer) ==
    /\ login[u].pc = "idle"
    /\ u \in Users \ joined
    /\ referrer \in joined \cup {"none"}
    /\ joined' = joined \cup {u}
    /\ parentID' = [parentID EXCEPT ![u] = referrer]
    /\ invitedBy' = [invitedBy EXCEPT ![u] = referrer]
    /\ personalPower' = [personalPower EXCEPT ![u] = DecimalZero]
    /\ networkPower' = [networkPower EXCEPT ![u] = DecimalZero]
    /\ login' = [login EXCEPT ![u] =
                   [IdleLogin EXCEPT !.pc = IF referrer = "none" THEN "done" ELSE "getnode",
                                     !.referrer = referrer]]
    /\ UNCHANGED <<clockVars, op, ledgerVars, blockVars, rewards, credited, claimWrites, call, nCalls,
                   faults, run>>
    /\ UNCHANGED <<hasNode, currentLevel, teamPower, teamMembers, directReferrals, walk>>

\* ProcessReferral: GetUserNode(referrerID), a zero node when there is no row
GetUserNode(u) ==
    LET c == login[u]
    IN  /\ c.pc = "getnode"
        /\ login' = [login EXCEPT ![u] =
                       [c EXCEPT !.pc = "upsert",
                                 !.node = IF c.referrer \in hasNode
                                          THEN directReferrals[c.referrer] ELSE 0]]
        /\ UNCHANGED <<clockVars, op, ledgerVars, blockVars, rewards, credited, claimWrites, call, nCalls,
                       faults, run>>
        /\ UNCHANGED <<joined, parentID, invitedBy, personalPower, networkPower, hasNode, currentLevel,
                       teamPower, teamMembers, directReferrals, walk>>

\* ProcessReferral: node.DirectReferrals++ and UpsertUserNode with UserID and
\* DirectReferrals only, so current_level, team_power and team_members are
\* stored with their zero values
UpsertUserNode(u) ==
    LET c == login[u]
    IN  /\ c.pc = "upsert"
        /\ hasNode' = hasNode \cup {c.referrer}
        /\ directReferrals' = [directReferrals EXCEPT ![c.referrer] = c.node + 1]
        /\ teamPower' = [teamPower EXCEPT ![c.referrer] = 0]
        /\ teamMembers' = [teamMembers EXCEPT ![c.referrer] = 0]
        /\ currentLevel' = [currentLevel EXCEPT ![c.referrer] = 0]
        /\ login' = [login EXCEPT ![u] = [c EXCEPT !.pc = "getcp"]]
        /\ UNCHANGED <<clockVars, op, ledgerVars, blockVars, rewards, credited, claimWrites, call, nCalls,
                       faults, run>>
        /\ UNCHANGED <<joined, parentID, invitedBy, personalPower, networkPower, walk>>

\* updateAncestorsTeamPower: GetCombatPower(userID), currentID := inviterID
GetCombatPower(u) ==
    LET c == login[u]
    IN  /\ c.pc = "getcp"
        /\ login' = [login EXCEPT ![u] =
                       [c EXCEPT !.pc = "add", !.power = personalPower[u],
                                 !.currentID = c.referrer]]
        /\ UNCHANGED <<clockVars, op, ledgerVars, blockVars, rewards, credited, claimWrites, call, nCalls,
                       faults, run>>
        /\ UNCHANGED <<joined, parentID, invitedBy, personalPower, networkPower, hasNode, currentLevel,
                       teamPower, teamMembers, directReferrals, walk>>

\* the loop, first half: AddTeamPower on currentID; history: overlapped records
\* that another call stood at the same ancestor at that moment, trail the
\* ancestors this call has issued AddTeamPower for, in order
AncestorAdd(u) ==
    LET c == login[u]
    IN  /\ c.pc = "add"
        /\ teamPower' = AddTeamPower(teamPower, c.currentID, c.power)
        /\ login' = [login EXCEPT ![u] =
                       [c EXCEPT !.pc = "next",
                                 !.trail = Append(c.trail, c.currentID),
                                 !.overlapped = c.overlapped \/
                                    \E v \in Users \ {u} :
                                       /\ login[v].pc \in {"add", "next"}
                                       /\ login[v].currentID = c.currentID]]
        /\ UNCHANGED <<clockVars, op, ledgerVars, blockVars, rewards, credited, claimWrites, call, nCalls,
                       faults, run>>
        /\ UNCHANGED <<joined, parentID, invitedBy, personalPower, networkPower, hasNode, currentLevel,
                       teamMembers, directReferrals, walk>>

\* the loop, AddTeamPower returns an error: "if err != nil { return err }", the
\* call is over; history: failedAt is the ancestor whose write failed
AncestorAddFail(u) ==
    LET c == login[u]
    IN  /\ c.pc = "add"
        /\ faults < MaxFaults
        /\ faults' = faults + 1
        /\ login' = [login EXCEPT ![u] = [c EXCEPT !.pc = "failed", !.failedAt = c.currentID]]
        /\ UNCHANGED <<clockVars, op, ledgerVars, blockVars, rewards, credited, claimWrites, call, nCalls, run>>
        /\ UNCHANGED <<joined, parentID, invitedBy, personalPower, networkPower, hasNode, currentLevel,
                       teamPower, teamMembers, directReferrals, walk>>

\* a user row without parent
NoParent(cur) == "none"

\* the parent GetUserByID(currentID) returns, as the loop reads it
ParentOf(cur) == parentID[cur]

\* the loop, second half: GetUserByID(currentID), break without parent
AncestorNext(u) ==
    LET c == login[u]
    IN  /\ c.pc = "next"
        /\ login' = [login EXCEPT ![u] =
                       IF c.currentID \notin joined \/ ParentOf(c.currentID) = "none"
                       THEN [c EXCEPT !.pc = "done"]
                       ELSE [c EXCEPT !.pc = "add", !.currentID = ParentOf(c.currentID)]]
        /\ UNCHANGED <<clockVars, op, ledgerVars, blockVars, rewards, credited, claimWrites, call, nCalls,
                       faults, run>>
        /\ UNCHANGED <<joined, parentID, invitedBy, personalPower, networkPower, hasNode, currentLevel,
                       teamPower, teamMembers, directReferrals, walk>>

\* --------------- balance operations on the CAN row (burn.go, swap.go, ...)
\* Each operation is one call, executed one database statement per step.
\* the requests: burn accepts any amount, the other handlers reject amount <= 0
OpAmounts == {1, 3}

\* operations start in the order of their slot
NextOp(p) == op[p].pc = "idle" /\ \A q \in Ops : q < p => op[q].pc # "idle"

\* BurnTokens: GetUserBalance; no row or balance < amount is "insufficient balance"
BurnRead(p, u, a) ==
    /\ NextOp(p)
    /\ op' = [op EXCEPT ![p] =
                [pc     |-> IF u \in hasBalance /\ ~(balance[u] < a) THEN "deduct" ELSE "failed",
                 kind   |-> "burn", userID |-> u, amount |-> a,
                 read   |-> IF u \in hasBalance THEN balance[u] ELSE 0]]
    /\ UNCHANGED <<clockVars, teamVars, ledgerVars, blockVars, rewards, credited, claimWrites,
                   call, nCalls, faults, run>>

\* UpdateUserBalance: INSERT ... ON CONFLICT DO UPDATE SET balance = EXCLUDED.balance
UpdateUserBalance(bal, userID, newBalance) == [bal EXCEPT ![userID] = newBalance]

\* BurnTokens: UpdateUserBalance with balance.Balance.Sub(amount), the balance read before
BurnDeduct(p) ==
    LET c == op[p]
    IN  /\ c.kind = "burn" /\ c.pc = "deduct"
        /\ hasBalance' = hasBalance \cup {c.userID}
        /\ balance' = UpdateUserBalance(balance, c.userID, c.read - c.amount)
        /\ op' = [op EXCEPT ![p] = [c EXCEPT !.pc = "record"]]
        /\ UNCHANGED <<clockVars, teamVars, lpWeight, burnPower, burns, powerVars, blockVars,
                       rewards, credited, claimWrites, call, nCalls, faults, run>>

\* BurnTokens: CreateBurn, the row of the burns table
BurnRecord(p) ==
    LET c == op[p]
    IN  /\ c.kind = "burn" /\ c.pc = "record"
        /\ op' = [op EXCEPT ![p] = [c EXCEPT !.pc = "power"]]
        /\ UNCHANGED <<clockVars, teamVars, ledgerVars, blockVars, rewards, credited,
                       claimWrites, call, nCalls, faults, run>>

\* BurnTokens: AddBurnPower with combatGained = amount
BurnAddPower(p) ==
    LET c == op[p]
    IN  /\ c.kind = "burn" /\ c.pc = "power"
        /\ burnPower' = [burnPower EXCEPT ![c.userID] = burnPower[c.userID] + c.amount]
        /\ personalPower' = [personalPower EXCEPT ![c.userID] = personalPower[c.userID] + c.amount]
        /\ op' = [op EXCEPT ![p] = [c EXCEPT !.pc = "update"]]
        /\ UNCHANGED <<clockVars, hasBalance, balance, lpWeight, burns, powerVars, blockVars,
                       rewards, credited, claimWrites, call, nCalls, faults, run>>
        /\ UNCHANGED <<joined, parentID, invitedBy, networkPower, hasNode, currentLevel, teamPower,
                       teamMembers, directReferrals, walk, login>>

\* BurnTokens: UpdateCombatPower, and the call returns nil
BurnUpdateCombat(p) ==
    LET c == op[p]
    IN  /\ c.kind = "burn" /\ c.pc = "update"
        /\ personalPower' = [personalPower EXCEPT ![c.userID] = CalculatePersonalPower(c.userID)]
        /\ networkPower' = [networkPower EXCEPT ![c.userID] = GetTeamCombatPower(c.userID)]
        /\ op' = [op EXCEPT ![p] = [c EXCEPT !.pc = "done"]]
        /\ UNCHANGED <<clockVars, ledgerVars, blockVars, rewards, credited, claimWrites, call,
                       nCalls, faults, run>>
        /\ UNCHANGED <<joined, parentID, invitedBy, hasNode, currentLevel, teamPower, teamMembers,
                       directReferrals, walk, login>>

\* ExecuteSwap, CreateWithdrawalRequest, AddLiquidity, ...: GetUserTokenBalance
\* (zero without row) and the check "balance.LessThan(amount)"
SpendCheck(p, u, a) ==
    /\ NextOp(p)
    /\ LET have == IF u \in hasBalance THEN balance[u] ELSE 0
       IN  op' = [op EXCEPT ![p] =
                    [pc |-> IF have < a THEN "failed" ELSE "subtract",
                     kind |-> "spend", userID |-> u, amount |-> a, read |-> have]]
    /\ UNCHANGED <<clockVars, teamVars, ledgerVars, blockVars, rewards, credited, claimWrites,
                   call, nCalls, faults, run>>

\* UPDATE user_balances SET balance = balance - $3 without "AND balance >= $3"
SubtractAnyBalance(bal, userID, amount) ==
    IF userID \in hasBalance THEN [bal EXCEPT ![userID] = bal[userID] - amount] ELSE bal

\* SubtractUserBalance: UPDATE ... WHERE user_id = $1 AND token_id = $2 AND
\* balance >= $3; no row updated is no error
SubtractUserBalance(bal, userID, amount) ==
    IF userID \in hasBalance /\ bal[userID] >= amount
    THEN [bal EXCEPT ![userID] = bal[userID] - amount]
    ELSE bal

\* the deduction of the spending operations
SpendSubtract(p) ==
    LET c == op[p]
    IN  /\ c.kind = "spend" /\ c.pc = "subtract"
        /\ balance' = SubtractUserBalance(balance, c.userID, c.amount)
        /\ op' = [op EXCEPT ![p] = [c EXCEPT !.pc = "done"]]
        /\ UNCHANGED <<clockVars, teamVars, hasBalance, lpWeight, burnPower, burns, powerVars,
                       blockVars, rewards, credited, claimWrites, call, nCalls, faults, run>>

\* the credits (swap output, refund of a rejected withdrawal, mining earnings,
\* removed liquidity): AddUserBalance with a positive amount
Credit(p, u, a) ==
    /\ NextOp(p)
    /\ balance' = AddUserBalance(balance, u, a)
    /\ op' = [op EXCEPT ![p] = [pc |-> "done", kind |-> "credit", userID |-> u,
                                amount |-> a, read |-> 0]]
    /\ UNCHANGED <<clockVars, teamVars, hasBalance, lpWeight, burnPower, burns, powerVars,
                   blockVars, rewards, credited, claimWrites, call, nCalls, faults, run>>

\* AddLiquidity: the lp_positions row grows by the LP amount, and
\* UpdateCombatPower stores GetUserLPWeight, the sum over the positions, as
\* lp_weight together with the recalculated personal power
LiquidityChange(p, u, a) ==
    /\ NextOp(p)
    /\ lpWeight' = [lpWeight EXCEPT ![u] = lpWeight[u] + a]
    /\ personalPower' = [personalPower EXCEPT ![u] = CalculatePersonalPower(u) + a]
    /\ networkPower' = [networkPower EXCEPT ![u] = GetTeamCombatPower(u)]
    /\ op' = [op EXCEPT ![p] = [pc |-> "done", kind |-> "liquidity", userID |-> u,
                                amount |-> a, read |-> 0]]
    /\ UNCHANGED <<clockVars, hasBalance, balance, burnPower, burns, powerVars, blockVars,
                   rewards, credited, claimWrites, call, nCalls, faults, run>>
    /\ UNCHANGED <<joined, parentID, invitedBy, hasNode, currentLevel, teamPower, teamMembers,
                   directReferrals, walk, login>>

\* ------------------------------------ GetCurrentBlockAndCountdown (node.go)
\* s.cfg.App.MintBlockInterval, in clock units
MintBlockInterval == IntervalUnits

\* time.Until(t)
Until(t) == t - clock

\* the rows of mint_blocks, whether distributed or not
AnyBlock(bs) == {b \in 1..Len(bs) : TRUE}

\* WHERE distributed = false
Undistributed(bs) == {b \in 1..Len(bs) : ~bs[b].distributed}

\* GetCurrentMintBlock: the rows the query can return, ORDER BY created_at DESC
\* LIMIT 1 (any of the newest when created_at ties); none is sql.ErrNoRows
GetCurrentMintBlock(bs) ==
    {b \in Undistributed(bs) :
        \A c \in Undistributed(bs) : bs[c].createdAt <= bs[b].createdAt}

\* the clock of the server
TimePasses ==
    /\ clock < MaxClock
    /\ clock' = clock + 1
    /\ UNCHANGED <<op, teamVars, ledgerVars, blockVars, rewards, credited, claimWrites, call,
                   nCalls, faults, run, countdown>>

\* GetCurrentBlockAndCountdown, first query: with a row, the block and
\* time.Until(block.CreatedAt.Add(interval)) are returned; without, the call
\* goes on to GetLastMintBlock
CountdownCurrent ==
    /\ countdown.pc \in {"idle", "done"}
    /\ IF GetCurrentMintBlock(blocks) # {}
       THEN \E b \in GetCurrentMintBlock(blocks) :
               countdown' = [pc |-> "done", block |-> b,
                             remaining |-> Until(blocks[b].createdAt + MintBlockInterval),
                             failed |-> "none"]
       ELSE countdown' = [pc |-> "last", block |-> 0, remaining |-> 0, failed |-> "none"]
    /\ UNCHANGED <<op, teamVars, ledgerVars, blockVars, rewards, credited, claimWrites, call,
                   nCalls, faults, run, clock>>

\* GetCurrentMintBlock returns another error: handled like sql.ErrNoRows
CountdownCurrentFail ==
    /\ countdown.pc \in {"idle", "done"}
    /\ faults < MaxFaults
    /\ faults' = faults + 1
    /\ countdown' = [pc |-> "last", block |-> 0, remaining |-> 0, failed |-> "current"]
    /\ UNCHANGED <<op, teamVars, ledgerVars, blockVars, rewards, credited, claimWrites, call,
                   nCalls, run, clock>>

\* second query, GetLastMintBlock: nil and the time until the last block's
\* creation time plus the interval, or nil and the interval when there is no row
CountdownLast ==
    /\ countdown.pc = "last"
    /\ countdown' = [countdown EXCEPT
                       !.pc = "done",
                       !.remaining = IF blocks = <<>> THEN MintBlockInterval
                                     ELSE Until(blocks[Len(blocks)].createdAt
                                                + MintBlockInterval)]
    /\ UNCHANGED <<op, teamVars, ledgerVars, blockVars, rewards, credited, claimWrites, call,
                   nCalls, faults, run, clock>>

\* GetLastMintBlock returns another error: nil and the interval
CountdownLastFail ==
    /\ countdown.pc = "last"
    /\ faults < MaxFaults
    /\ faults' = faults + 1
    /\ countdown' = [countdown EXCEPT !.pc = "done", !.remaining = MintBlockInterval,
                                      !.failed = "last"]
    /\ UNCHANGED <<op, teamVars, ledgerVars, blockVars, rewards, credited, claimWrites, call,
                   nCalls, run, clock>>

\* ------------------------------------------------------------------- Next
\* the reward engine: block pipeline and claims
Next ==
    \/ CreateNewBlock
    \/ \E b \in 1..MaxTicks : CalculateWeights(b)
    \/ \E b \in 1..MaxTicks : DistributeRewards(b)
    \/ \E p \in Calls, u \in Users, ids \in RewardIdLists : ClaimStart(p, u, ids)
    \/ \E p \in Calls : ClaimRead(p)
    \/ \E p \in Calls : ClaimUpdate(p)
    \/ \E p \in Calls : ClaimUpdateFail(p)
    \/ \E p \in Calls : ClaimCredit(p)
    \/ \E p \in Calls : ClaimCreditFail(p)

Spec == Init /\ [][Next]_vars

\* the block pipeline while the weights change under it
NextBlocks ==
    \/ CreateNewBlock
    \/ \E b \in 1..MaxTicks : CalculateWeights(b)
    \/ \E b \in 1..MaxTicks : DistributeRewards(b)
    \/ \E u \in Users, a \in BurnAmounts : AddBurnPower(u, a)

SpecBlocks == Init /\ [][NextBlocks]_vars

\* the reward engine with its ClaimRewards calls one after another
InFlight == InFlightCalls

ClaimStartSeq(p, userID, rewardIDs) ==
    /\ InFlight = {}
    /\ ClaimStart(p, userID, rewardIDs)

NextSeq ==
    \/ CreateNewBlock
    \/ \E b \in 1..MaxTicks : CalculateWeights(b)
    \/ \E b \in 1..MaxTicks : DistributeRewards(b)
    \/ \E p \in Calls, u \in Users, ids \in RewardIdLists : ClaimStartSeq(p, u, ids)
    \/ \E p \in Calls, u \in Users :
          \E ids \in Orderings(GetUserUnclaimedRewards(rewards, u)) : ClaimAllStart(p, u, ids)
    \/ \E p \in Calls : ClaimRead(p)
    \/ \E p \in Calls : ClaimUpdate(p)
    \/ \E p \in Calls : ClaimUpdateFail(p)
    \/ \E p \in Calls : ClaimCredit(p)
    \/ \E p \in Calls : ClaimCreditFail(p)

SpecSeq == Init /\ [][NextSeq]_vars

\* the block pipeline statement by statement: interleaved and interrupted runs
NextSteps ==
    \/ \E r \in Runs : CreateNewBlockBegin(r)
    \/ \E r \in Runs : GetLastMintBlockFail(r)
    \/ \E r \in Runs : CreateMintBlock(r)
    \/ \E r \in Runs : CreateMintBlockFail(r)
    \/ \E r \in Runs, b \in 1..MaxRuns : CalculateWeightsBegin(r, b)
    \/ \E r \in Runs, b \in 1..MaxRuns : DistributeRewardsBegin(r, b)
    \/ \E r \in Runs : GetAllUsersFail(r)
    \/ \E r \in Runs : CreateWeightSnapshot(r)
    \/ \E r \in Runs : CreateWeightSnapshotFail(r)
    \/ \E r \in Runs : LoadSnapshots(r)
    \/ \E r \in Runs : CreateBlockReward(r)
    \/ \E r \in Runs : CreateBlockRewardFail(r)
    \/ \E r \in Runs : MarkDistributed(r)
    \/ \E r \in Runs : Interrupt(r)

SpecSteps == Init /\ [][NextSteps]_vars

\* a run that has started keeps executing its statements; nothing in the
\* program starts a run by itself
RunStep ==
    \E r \in Runs :
        \/ CreateMintBlock(r)
        \/ CreateWeightSnapshot(r)
        \/ LoadSnapshots(r)
        \/ CreateBlockReward(r)
        \/ MarkDistributed(r)

SpecStepsFair == SpecSteps /\ WF_vars(RunStep)

\* the pipeline as its entry points chain it: CreateNewBlock calls
\* CalculateWeights, which calls DistributeRewards; calls overlap, fail and
\* are interrupted, and CalculateWeights is called again on a stored block
NextPipeline ==
    \/ \E r \in Runs : CreateNewBlockBegin(r)
    \/ \E r \in Runs : GetLastMintBlockFail(r)
    \/ \E r \in Runs : CreateMintBlock(r)
    \/ \E r \in Runs : CreateMintBlockFail(r)
    \/ \E r \in Runs, b \in 1..MaxRuns : CalculateWeightsBegin(r, b)
    \/ \E r \in Runs : GetAllUsersFail(r)
    \/ \E r \in Runs : CreateWeightSnapshot(r)
    \/ \E r \in Runs : CreateWeightSnapshotFail(r)
    \/ \E r \in Runs : LoadSnapshots(r)
    \/ \E r \in Runs : CreateBlockReward(r)
    \/ \E r \in Runs : CreateBlockRewardFail(r)
    \/ \E r \in Runs : MarkDistributed(r)
    \/ \E r \in Runs : Interrupt(r)

SpecPipeline == Init /\ [][NextPipeline]_vars

\* balance operations of two users, one with a CAN row holding 3 and one
\* without row, interleaved statement by statement; a third user has LP weight
OpeningLedger == [rows |-> {"u1"}, bal |-> [NoWeight EXCEPT !["u1"] = 3],
                  lp   |-> [NoWeight EXCEPT !["u3"] = 1]]
OpUsers       == {"u1", "u2"}
BurnRequests  == OpAmounts \cup {-1}

InitLedgerOps ==
    /\ InitEngine(OpeningLedger)
    /\ InitNodes
    /\ joined = Users
    /\ parentID = NoUser
    /\ invitedBy = NoUser
    /\ personalPower = [u \in Users |-> OpeningLedger.bal[u] + OpeningLedger.lp[u]]

NextLedgerOps ==
    \/ \E p \in Ops, u \in OpUsers, a \in BurnRequests : BurnRead(p, u, a)
    \/ \E p \in Ops : BurnDeduct(p)
    \/ \E p \in Ops : BurnRecord(p)
    \/ \E p \in Ops : BurnAddPower(p)
    \/ \E p \in Ops : BurnUpdateCombat(p)
    \/ \E p \in Ops, u \in OpUsers, a \in OpAmounts : SpendCheck(p, u, a)
    \/ \E p \in Ops : SpendSubtract(p)
    \/ \E p \in Ops, u \in OpUsers, a \in OpAmounts : Credit(p, u, a)

SpecLedgerOps == InitLedgerOps /\ [][NextLedgerOps]_vars

\* CreateNewBlock calls, one after another and statement by statement, while
\* the weights of the participants change
NextFrozen ==
    \/ \E r \in Runs : ActiveRuns = {} /\ CreateNewBlockBegin(r)
    \/ \E r \in Runs : CreateMintBlock(r)
    \/ \E r \in Runs : CreateWeightSnapshot(r)
    \/ \E r \in Runs : LoadSnapshots(r)
    \/ \E r \in Runs : CreateBlockReward(r)
    \/ \E r \in Runs : MarkDistributed(r)
    \/ \E p \in Ops : BurnRead(p, "u1", 1)
    \/ \E p \in Ops : BurnDeduct(p)
    \/ \E p \in Ops : BurnRecord(p)
    \/ \E p \in Ops : BurnAddPower(p)
    \/ \E p \in Ops : BurnUpdateCombat(p)
    \/ \E p \in Ops : Credit(p, "u1", 1)
    \/ \E p \in Ops : LiquidityChange(p, "u3", 1)

SpecFrozen == InitLedgerOps /\ [][NextFrozen]_vars

\* the countdown queries next to CreateNewBlock calls, statement by statement
NextCountdown ==
    \/ \E r \in Runs : CreateNewBlockBegin(r)
    \/ \E r \in Runs : CreateMintBlock(r)
    \/ \E r \in Runs : GetAllUsersFail(r)
    \/ \E r \in Runs : CreateWeightSnapshot(r)
    \/ \E r \in Runs : LoadSnapshots(r)
    \/ \E r \in Runs : CreateBlockReward(r)
    \/ \E r \in Runs : MarkDistributed(r)
    \/ TimePasses
    \/ CountdownCurrent
    \/ CountdownCurrentFail
    \/ CountdownLast
    \/ CountdownLastFail

\* one of the ledgers: the queries read mint_blocks only
InitCountdown == Init /\ hasBalance = {"u1", "u3"}

SpecCountdown == InitCountdown /\ [][NextCountdown]_vars

\* the referral network: users join one by one, powers change, team
\* statistics are recalculated
FreshLedger == [rows |-> {}, bal |-> NoWeight, lp |-> NoWeight]

InitTeam ==
    /\ InitEngine(FreshLedger)
    /\ InitNodes
    /\ joined = {}
    /\ parentID = NoUser
    /\ invitedBy = NoUser
    /\ personalPower = NoWeight

NextTeam ==
    \/ \E u \in Users, referrer \in Users \cup {"none"} : LoginBegin(u, referrer)
    \/ WalkAdd
    \/ WalkNext
    \/ \E u \in Users, a \in BurnAmounts : AddBurnPower(u, a)
    \/ \E u \in Users : UpdateCombatPower(u)
    \/ \E p \in Users : RecalculateTeamStats(p)

SpecTeam == InitTeam /\ [][NextTeam]_vars

\* the referral network with node levels: as SpecTeam, and users upgrade
NextNodes ==
    \/ \E u \in Users, referrer \in Users \cup {"none"} : LoginBegin(u, referrer)
    \/ WalkAdd
    \/ WalkNext
    \/ \E u \in Users, a \in BurnAmounts : AddBurnPower(u, a)
    \/ \E u \in Users : UpdateCombatPower(u)
    \/ \E p \in Users : RecalculateTeamStats(p)
    \/ \E u \in Users : UpgradeNode(u)

SpecNodes == InitTeam /\ [][NextNodes]_vars

\* ancestor propagation over any stored parent relation, a corrupted one
\* included: u1 and u2 are registered with arbitrary parents, u3 joins
CorruptParents ==
    {f \in [Users -> Users \cup {"none"}] :
        f["u3"] = "none" /\ f["u1"] # "u3" /\ f["u2"] # "u3"}

InitWalk ==
    /\ InitEngine(FreshLedger)
    /\ InitNodes
    /\ joined = {"u1", "u2"}
    /\ parentID \in CorruptParents
    /\ invitedBy = parentID
    /\ personalPower = NoWeight

NextWalk ==
    \/ \E u \in Users, referrer \in Users \cup {"none"} : LoginBegin(u, referrer)
    \/ WalkAdd
    \/ WalkNext
    \/ \E u \in Users, a \in BurnAmounts : AddBurnPower(u, a)

\* a call in progress keeps executing
SpecWalk == InitWalk /\ [][NextWalk]_vars /\ WF_vars(WalkAdd \/ WalkNext)

\* concurrent registrations: the Login calls of new wallets interleave
NextLogins ==
    \/ \E u \in Users, referrer \in Users \cup {"none"} : CreateUser(u, referrer)
    \/ \E u \in Users : GetUserNode(u)
    \/ \E u \in Users : UpsertUserNode(u)
    \/ \E u \in Users : GetCombatPower(u)
    \/ \E u \in Users : AncestorAdd(u)
    \/ \E u \in Users : AncestorAddFail(u)
    \/ \E u \in Users : AncestorNext(u)

SpecLogins == InitTeam /\ [][NextLogins]_vars

\* personal power of users with any holdings and badges
LanAmounts  == {0, 2}
UsdtLedgers == {NoWeight, [NoWeight EXCEPT !["u1"] = 4, !["u3"] = 4]}

InitPower ==
    \E l \in InitLedgers :
        /\ run = [r \in Runs |-> IdleRun]
        /\ hasBalance = l.rows
        /\ balance = l.bal
        /\ lpWeight = l.lp
        /\ burnPower = NoWeight
        /\ burns = 0
        /\ lanBalance \in [Users -> LanAmounts]
        /\ otherBalance \in UsdtLedgers
        /\ activeBadges \in [Users -> {{}, {"VIP"}, {"Founders"}}]
        /\ clock = 0
        /\ countdown = IdleCountdown
        /\ op = [p \in Ops |-> IdleOp]
        /\ blocks = <<>>
        /\ snapshots = <<>>
        /\ rewards = <<>>
        /\ credited = <<>>
        /\ claimWrites = <<>>
        /\ call = [p \in Calls |-> IdleCall]
        /\ tick = 0
        /\ nCalls = 0
        /\ faults = 0
        /\ InitNodes
        /\ joined = Users
        /\ parentID = NoUser
        /\ invitedBy = NoUser
        /\ personalPower = NoWeight

NextPower ==
    \/ \E u \in Users : UpdateCombatPower(u)
    \/ \E u \in Users, a \in BurnAmounts : AddBurnPower(u, a)

SpecPower == InitPower /\ [][NextPower]_vars

TypeOK ==
    /\ hasBalance \subseteq Users
    /\ balance \in [Users -> Nat]
    /\ Len(credited) = Len(rewards)
    /\ Len(rewards) <= MaxRewards

\* ------------------------------------------------------------ properties
Range(s) == {s[k] : k \in 1..Len(s)}

\* the rows of block_rewards of block b
EntriesOf(rs, b) == {e \in 1..Len(rs) : rs[e].blockID = b}

EntriesOfUser(rs, b, u) == {e \in EntriesOf(rs, b) : rs[e].userID = u}

RECURSIVE AmountSum(_, _)
AmountSum(rs, S) ==
    IF S = {} THEN 0
    ELSE LET e == CHOOSE x \in S : TRUE
         IN  rs[e].amount + AmountSum(rs, S \ {e})

SnapshotsOf(snaps, b, u) ==
    SelectSeq(snaps, LAMBDA s : s.blockID = b /\ s.userID = u)

BlockWeight(b) == TotalWeight(GetWeightSnapshotsByBlock(snapshots, b))

\* u has a snapshot in block b and every snapshot of u in b has weight zero
ZeroWeightIn(b, u) ==
    /\ SnapshotsOf(snapshots, b, u) # <<>>
    /\ TotalWeight(SnapshotsOf(snapshots, b, u)) = 0

\* call p was a complete, undisturbed request of the owner for exactly the entry
\* e, which was stored and unclaimed when the request arrived
RacedFor(p, e) ==
    /\ call[p].pc = "done"
    /\ ~call[p].faulted
    /\ call[p].rewardIDs = <<e>>
    /\ call[p].userID = rewards[e].userID
    /\ e <= call[p].startRows
    /\ e \notin call[p].startClaimed

\* C1: two ClaimRewards calls of the owner for the same entry, both arrived
\* while the entry was unclaimed (so they overlap): one returns the amount, the
\* other zero, and the balance is credited once.
C1_ExactlyOneClaimWins ==
    \A p \in Calls, q \in Calls : \A e \in 1..Len(rewards) :
        (p < q /\ RacedFor(p, e) /\ RacedFor(q, e)) =>
            /\ call[p].totalClaimed + call[q].totalClaimed = rewards[e].amount
            /\ credited[e] <= 1

\* the entries a finished call could newly claim: requested, owned by the
\* caller, not claimed when the call arrived; a duplicate id counts once
Fresh(c) ==
    {e \in Range(c.rewardIDs) \cap (1..Len(rewards)) :
        rewards[e].userID = c.userID /\ e \notin c.startClaimed}

\* C2: with the calls one after another, no entry is credited twice; an entry
\* claimed before the call, or named twice in its list, adds nothing to the
\* returned amount; claimed flags stay set; and a call that names only entries
\* claimed before leaves the caller's balance as it was.
C2_ReclaimCreditsNothing ==
    /\ \A e \in 1..Len(rewards) : credited[e] <= 1
    /\ \A p \in Calls :
         LET c == call[p]
         IN  c.pc = "done" =>
               /\ c.startClaimed \subseteq ClaimedIds
               /\ c.totalClaimed <= AmountSum(rewards, Fresh(c))
               /\ (p = nCalls /\ Range(c.rewardIDs) \subseteq c.startClaimed)
                     => balance[c.userID] = c.startBalance

\* a call named its own entry twice and a later call of the owner named the
\* same entry again; the entry was credited once
C2_Witness ==
    \E e \in 1..Len(rewards) :
        /\ call[1].pc = "done" /\ call[2].pc = "done"
        /\ call[1].rewardIDs = <<e, e>>
        /\ call[1].userID = rewards[e].userID
        /\ call[1].totalClaimed = rewards[e].amount
        /\ call[2].rewardIDs = <<e>>
        /\ call[2].userID = rewards[e].userID
        /\ e \in call[2].startClaimed
        /\ call[2].totalClaimed = 0
        /\ credited[e] = 1

\* C3: for every distributed block (here even only those with at most one
\* entry per participant) the entry amounts sum to at most the total reward.
C3_Conservation ==
    \A b \in 1..Len(blocks) :
        (/\ blocks[b].distributed
         /\ \A u \in Users : Cardinality(EntriesOfUser(rewards, b, u)) <= 1)
        => AmountSum(rewards, EntriesOf(rewards, b)) <= blocks[b].totalReward

\* C4: DistributeRewards on a block already marked distributed creates no
\* further reward entry.
C4_NoSecondDistribution ==
    [][\A b \in 1..Len(blocks) :
          (blocks[b].distributed /\ DistributeRewards(b)) => rewards' = rewards]_vars

\* C5: every entry with claimed = true has been credited to a balance row, or
\* is just between the flag update and the credit statement of a running call.
C5_ClaimedMeansCredited ==
    \A e \in 1..Len(rewards) :
        rewards[e].claimed =>
            \/ credited[e] >= 1
            \/ \E p \in Calls : call[p].pc = "credit" /\ call[p].rewardIDs[call[p].i] = e

\* C6: the amount a call returns is the increase of the caller's balance and
\* the sum of the entries it flipped (calls one after another, no failing
\* statement, the latest call).
C6_ReturnEqualsCredit ==
    \A p \in Calls :
        LET c == call[p]
        IN  (p = nCalls /\ c.pc = "done" /\ ~c.faulted) =>
              /\ c.totalClaimed = balance[c.userID] - c.startBalance
              /\ c.totalClaimed = AmountSum(rewards, c.flipped)

\* C7: a step of a call on an entry owned by someone else changes no reward
\* row and no balance, adds nothing to the amount the call will return, and
\* goes on to the next id.
C7_ForeignEntrySkipped ==
    [][\A p \in Calls :
          LET c == call[p]
          IN  (/\ c.pc \in {"read", "claim", "credit"}
               /\ call'[p] # c
               /\ c.rewardIDs[c.i] \in 1..Len(rewards)
               /\ rewards[c.rewardIDs[c.i]].userID # c.userID)
              => /\ rewards' = rewards
                 /\ balance' = balance
                 /\ credited' = credited
                 /\ call'[p].totalClaimed = c.totalClaimed
                 /\ call'[p].flipped = c.flipped
                 /\ call'[p].pc \in {"read", "done"}]_vars

\* a finished call named a stored entry of another user: the entry is still
\* unclaimed and uncredited and the call returned nothing
C7_Witness ==
    \E p \in Calls : \E e \in 1..Len(rewards) :
        /\ call[p].pc = "done"
        /\ call[p].rewardIDs = <<e>>
        /\ e <= call[p].startRows
        /\ rewards[e].userID # call[p].userID
        /\ ~rewards[e].claimed
        /\ credited[e] = 0
        /\ call[p].totalClaimed = 0
        /\ balance[call[p].userID] = call[p].startBalance

\* C8: every entry a distribution inserts has amount
\* totalReward * participantWeight / W rounded down.
C8_ShareRoundedDown ==
    [][\A i \in (Len(rewards) + 1)..Len(rewards') :
          LET r == rewards'[i]
              W == TotalWeight(GetWeightSnapshotsByBlock(snapshots', r.blockID))
          IN  r.amount = (blocks'[r.blockID].totalReward * r.weightValue) \div W]_vars

\* C9: a block distributed with total weight zero and no entries gets no entry
\* later.
C9_ForfeitedPoolStaysForfeited ==
    [][\A b \in 1..Len(blocks) :
          (/\ blocks[b].distributed
           /\ BlockWeight(b) = 0
           /\ EntriesOf(rewards, b) = {})
          => EntriesOf(rewards', b) = {}]_vars

OpenAtStart(c) ==
    {e \in 1..c.startRows : rewards[e].userID = c.userID /\ e \notin c.startClaimed}

\* C11: a ClaimAllRewards call that ran alone (no other call, no statement
\* failing, no distribution in between) returns the sum of the amounts of the
\* caller's entries that were unclaimed when it arrived and leaves the caller
\* without unclaimed entry; none of its steps changes an entry or a balance of
\* another participant.
C11_ClaimAllTakesEverything ==
    /\ [](\A p \in Calls :
            LET c == call[p]
            IN  (c.pc = "done" /\ c.all /\ ~c.faulted /\ Len(rewards) = c.startRows) =>
                  /\ c.totalClaimed = AmountSum(rewards, OpenAtStart(c))
                  /\ GetUserUnclaimedRewards(rewards, c.userID) = {})
    /\ [][\A p \in Calls :
            (call[p].all /\ call'[p] # call[p]) =>
               /\ \A u \in Users \ {call[p].userID} : balance'[u] = balance[u]
               /\ \A e \in 1..Len(rewards) :
                     rewards[e].userID # call[p].userID => rewards'[e] = rewards[e]]_vars

\* a finished ClaimAllRewards call took the caller's entry while an entry of
\* another participant stayed unclaimed
C11_Witness ==
    \E p \in Calls :
        LET c == call[p]
        IN  /\ c.pc = "done" /\ c.all /\ ~c.faulted
            /\ Len(rewards) = c.startRows
            /\ OpenAtStart(c) # {}
            /\ c.totalClaimed = AmountSum(rewards, OpenAtStart(c))
            /\ c.totalClaimed > 0
            /\ \E e \in 1..Len(rewards) : rewards[e].userID # c.userID /\ ~rewards[e].claimed

\* C12: the stored blocks carry the numbers 1, 2, 3, ... in the order of
\* their creation: pairwise distinct, each the previous last plus one, none
\* skipped, whatever the interleaving of the CreateNewBlock runs.
C12_BlockNumbersConsecutive ==
    \A b \in 1..Len(blocks) : blocks[b].blockNumber = b

\* two CreateNewBlock runs read the same last block; one created the block,
\* the insert of the other was rejected
C12_Witness ==
    \E r \in Runs, q \in Runs :
        /\ r # q
        /\ run[r].op = "create" /\ run[q].op = "create"
        /\ run[r].nextBlockNumber = run[q].nextBlockNumber
        /\ run[r].pc = "failed"
        /\ run[q].blockID \in 1..Len(blocks)
        /\ blocks[run[q].blockID].blockNumber = run[q].nextBlockNumber

OpenBlocks == {b \in 1..Len(blocks) : ~blocks[b].distributed}

\* C13: at most one stored block is not marked distributed.
C13_AtMostOneOpenBlock == Cardinality(OpenBlocks) <= 1

\* C14: the row of a block marked distributed is not written again: neither
\* is the mark repeated (distributed_at rewritten) nor is the flag cleared.
C14_MarkedOnce ==
    [][\A b \in 1..Len(blocks) : blocks[b].distributed => blocks'[b] = blocks[b]]_vars

\* C15: ClaimReward writes a reward row at most once (claimed_at is set
\* once), and a claimed flag is never cleared.
C15_ClaimedOnce ==
    /\ [](\A e \in 1..Len(rewards) : claimWrites[e] <= 1)
    /\ [][\A e \in 1..Len(rewards) : rewards[e].claimed => rewards'[e].claimed]_vars

\* C16: there is at most one weight snapshot per participant and block.
C16_OneSnapshotPerPair ==
    \A b \in 1..Len(blocks) : \A u \in Users : Len(SnapshotsOf(snapshots, b, u)) <= 1

\* every run on block b ran alone and started while b was not distributed
CleanRunsOnly(b) == \A r \in Runs : run[r].blockID = b => run[r].clean

\* C17: a block that only saw runs one after another, each started while the
\* block was undistributed (an interrupted run and its re-runs), and is now
\* marked distributed has at most one reward entry per participant.
C17_RetryKeepsOneEntry ==
    \A b \in 1..Len(blocks) :
        (blocks[b].distributed /\ CleanRunsOnly(b)) =>
            \A u \in Users : Cardinality(EntriesOfUser(rewards, b, u)) <= 1

\* the downline of p: everyone whose chain of inviters leads to p
RECURSIVE DownlineFrom(_, _)
DownlineFrom(S, n) ==
    LET more == S \cup {u \in joined : invitedBy[u] \in S}
    IN  IF n = 0 \/ more = S THEN S ELSE DownlineFrom(more, n - 1)

Downline(p) == DownlineFrom({u \in joined : invitedBy[u] = p}, Cardinality(Users))

DownlinePower(p) == SetSum(personalPower, Downline(p))

\* C18: RecalculateTeamStats(p) stores the sum of the personal power of p's
\* downline as team power, the size of the downline as member count and the
\* number of users invited by p as direct referral count.
C18_RecalculateFromScratch ==
    [][\A p \in Users :
          RecalculateTeamStats(p) =>
             /\ teamPower'[p] = DownlinePower(p)
             /\ teamMembers'[p] = Cardinality(Downline(p))
             /\ directReferrals'[p] = Cardinality({u \in joined : invitedBy[u] = p})]_vars

\* a chain of three: the recalculated root counts two members, one direct
\* referral and the power of its grandchild
C18_Witness ==
    \E p \in joined, c \in joined, g \in joined :
        /\ invitedBy[c] = p /\ invitedBy[g] = c
        /\ personalPower[g] > 0
        /\ p \in hasNode
        /\ teamMembers[p] = 2
        /\ directReferrals[p] = 1
        /\ teamPower[p] = personalPower[c] + personalPower[g]

\* every join and power change has been processed: no call in progress and
\* every stored personal power is what UpdateCombatPower computes
Settled ==
    /\ walk.pc \in {"idle", "done"}
    /\ \A u \in joined : personalPower[u] = CalculatePersonalPower(u)

\* C19: once everything has been processed, every participant's maintained
\* team power (the team_power of the node row, or else the network_power of
\* the combat power row) is the sum of the personal power of the whole downline.
C19_TeamPowerConverges ==
    Settled =>
        \A u \in joined :
            \/ teamPower[u] = DownlinePower(u)
            \/ networkPower[u] = DownlinePower(u)

\* C20: ancestor propagation, once started, ends.
C20_PropagationTerminates ==
    [](walk.pc \in {"add", "next"} => <>(walk.pc = "done"))

\* ProcessReferral run alone on node table t ([hasNode, teamPower]) for the
\* new user u: the upsert of the referrer's node, then the walk up parent_id
RECURSIVE AloneWalk(_, _, _, _)
AloneWalk(t, cur, power, n) ==
    LET added == IF cur \in t.hasNode
                 THEN [t EXCEPT !.teamPower[cur] = t.teamPower[cur] + power]
                 ELSE t
    IN  IF n = 0 \/ parentID[cur] = "none" THEN added
        ELSE AloneWalk(added, parentID[cur], power, n - 1)

AloneProcessReferral(t, u) ==
    LET ref == login[u].referrer
    IN  AloneWalk([hasNode   |-> t.hasNode \cup {ref},
                   teamPower |-> [t.teamPower EXCEPT ![ref] = 0]],
                  ref, DecimalZero, Cardinality(Users))

RECURSIVE OneAfterAnother(_, _)
OneAfterAnother(order, t) ==
    IF order = <<>> THEN t
    ELSE OneAfterAnother(Tail(order), AloneProcessReferral(t, Head(order)))

\* the finished registrations that had a referrer
Referred == {u \in joined : login[u].pc = "done" /\ login[u].referrer # "none"}

\* the orders in which they can run one after another: a referrer registers
\* before the users it invites
PossibleOrders ==
    {o \in Orderings(Referred) :
        \A i, j \in 1..Len(o) : o[j] = login[o[i]].referrer => j < i}

C22_TeamPowerCoversDownline ==
    \A u \in joined :
        /\ personalPower[u] >= 0
        /\ \/ teamPower[u] >= DownlinePower(u)
           \/ networkPower[u] >= DownlinePower(u)

\* badges.benefits: the combat_power_multiplier of each badge, as a fraction
\* (VIP 1.5; Founders has none)
CombatPowerMultiplier(b) ==
    IF b = "VIP" THEN [num |-> 3, den |-> 2] ELSE [num |-> 1, den |-> 1]

\* the multiplier active for u: the product over the active badges, 1 without
RECURSIVE ActiveMultiplier(_)
ActiveMultiplier(bs) ==
    IF bs = {} THEN [num |-> 1, den |-> 1]
    ELSE LET b    == CHOOSE x \in bs : TRUE
             rest == ActiveMultiplier(bs \ {b})
         IN  [num |-> CombatPowerMultiplier(b).num * rest.num,
              den |-> CombatPowerMultiplier(b).den * rest.den]

\* C23: UpdateCombatPower(u) stores as personal power the LAN and CAN balances
\* plus LP weight plus burn power, times the multiplier of u's active badges
\* (1 when none is active).
C23_PersonalPowerFormula ==
    [][\A u \in Users :
          UpdateCombatPower(u) =>
             personalPower'[u] * ActiveMultiplier(activeBadges[u]).den =
                (lanBalance[u] + (IF u \in hasBalance THEN balance[u] ELSE 0)
                   + lpWeight[u] + burnPower[u]) * ActiveMultiplier(activeBadges[u]).num]_vars

\* the reward token's minimum unit, in grid units
MinimumUnit == Pow10(0)

\* C24: for every distributed block with nonzero total weight, what is left
\* of the total reward after the block's entries is at most one minimum unit
\* per participant.
C24_RemainderBounded ==
    \A b \in 1..Len(blocks) :
        (blocks[b].distributed /\ BlockWeight(b) > 0) =>
            blocks[b].totalReward - AmountSum(rewards, EntriesOf(rewards, b))
                <= Cardinality(Users) * MinimumUnit

\* call p was a complete, undisturbed request for entries that were all
\* stored, owned by the caller and unclaimed when it arrived, each named once
CleanClaim(p) ==
    LET c == call[p]
    IN  /\ c.pc = "done"
        /\ ~c.faulted
        /\ ~c.all
        /\ c.rewardIDs # <<>>
        /\ Range(c.rewardIDs) \subseteq OpenAtStart(c)
        /\ Cardinality(Range(c.rewardIDs)) = Len(c.rewardIDs)

\* the calls of user u
CallsOf(u) == {p \in Calls : call[p].pc # "idle" /\ call[p].userID = u}

RECURSIVE RequestedSum(_)
RequestedSum(P) ==
    IF P = {} THEN 0
    ELSE LET p == CHOOSE x \in P : TRUE
         IN  AmountSum(rewards, Range(call[p].rewardIDs)) + RequestedSum(P \ {p})

\* every call made is a clean claim and no two of them name the same entry
DisjointClaims ==
    /\ nCalls >= 2
    /\ \A p \in 1..nCalls : CleanClaim(p)
    /\ \A p, q \in 1..nCalls :
          p # q => Range(call[p].rewardIDs) \cap Range(call[q].rewardIDs) = {}

\* C25: after ClaimRewards calls for different unclaimed entries, however
\* their statements interleaved, every call has returned the sum of its
\* entries and every caller's balance has grown by the sum of the entries
\* claimed for it.
C25_DisjointClaimsAllCredited ==
    DisjointClaims =>
        /\ \A p \in 1..nCalls :
              call[p].totalClaimed = AmountSum(rewards, Range(call[p].rewardIDs))
        /\ \A u \in Users :
              CallsOf(u) # {} =>
                 balance[u] =
                    call[CHOOSE p \in CallsOf(u) : \A q \in CallsOf(u) : p <= q].startBalance
                       + RequestedSum(CallsOf(u))

\* CreateNewBlock run r has returned its block without error
Returned(r) == run[r].op = "create" /\ run[r].pc = "done"

\* C26: a block that CreateNewBlock has returned without error is marked
\* distributed at some time.
C26_CreatedBlockGetsDistributed ==
    \A r \in Runs :
        [](Returned(r) =>
             <>(run[r].blockID \in 1..Len(blocks) /\ blocks[run[r].blockID].distributed))

PositiveWeightIn(b) ==
    {u \in Users : \E k \in 1..Len(snapshots) :
        snapshots[k].blockID = b /\ snapshots[k].userID = u /\ UserWeight(snapshots[k]) > 0}

\* C28: at the step where DistributeRewards marks a block of nonzero total
\* weight as distributed, every participant with a snapshot of positive
\* weight in the block has exactly one reward entry for it; and every reward
\* entry is created with claimed = false.
C28_OneEntryPerWeightedParticipant ==
    /\ [][\A r \in Runs :
            (MarkDistributed(r) /\ run[r].totalWeight > 0) =>
               \A u \in PositiveWeightIn(run[r].blockID) :
                  Cardinality(EntriesOfUser(rewards', run[r].blockID, u)) = 1]_vars
    /\ [][\A e \in (Len(rewards) + 1)..Len(rewards') : ~rewards'[e].claimed]_vars

\* a snapshot pass over all participants has finished for block b
PassFinished(b) == \E q \in Runs : run[q].blockID = b /\ run[q].passed

ExistingWeight(b) ==
    SeqSum([k \in 1..Len(snapshots) |->
              IF snapshots[k].blockID = b THEN UserWeight(snapshots[k]) ELSE 0])

\* run r was the only call on its block, a snapshot write of it failed, no
\* reward write of it failed, and it has returned
DegradedRun(r) ==
    /\ run[r].pc = "done"
    /\ run[r].skipped # {}
    /\ run[r].unpaid = {}
    /\ \A q \in Runs \ {r} : run[q].blockID # run[r].blockID

\* C30: a failed snapshot write does not end CalculateWeights: the loop goes
\* on to the next participant; and when the call has returned, it has gone
\* over every participant and distributed the block, the participant without
\* snapshot has no reward entry for the block, and every other participant of
\* nonzero weight has one entry with its share of the weights that are stored.
C30_SnapshotFailureSkipsOne ==
    /\ [][\A r \in Runs :
            CreateWeightSnapshotFail(r) =>
               /\ run'[r].pc \in {"snap", "load"}
               /\ run'[r].pc = "snap" => run'[r].k = run[r].k + 1]_vars
    /\ [](\A r \in Runs :
            DegradedRun(r) =>
               LET b == run[r].blockID
               IN  /\ run[r].passed
                   /\ blocks[b].distributed
                   /\ \A u \in run[r].skipped :
                         /\ SnapshotsOf(snapshots, b, u) = <<>>
                         /\ EntriesOfUser(rewards, b, u) = {}
                   /\ \A u \in Users \ run[r].skipped :
                         /\ Len(SnapshotsOf(snapshots, b, u)) = 1
                         /\ LET w == UserWeight(SnapshotsOf(snapshots, b, u)[1])
                            IN  IF w = 0 THEN EntriesOfUser(rewards, b, u) = {}
                                ELSE \E e \in EntriesOfUser(rewards, b, u) :
                                        /\ EntriesOfUser(rewards, b, u) = {e}
                                        /\ rewards[e].amount =
                                              Share(blocks[b].totalReward, w, ExistingWeight(b)))

\* the snapshot write for u1, a participant with weight, failed in a
\* CreateNewBlock call; the call returned and u2 and u3 share the whole reward
C30_Witness ==
    \E r \in Runs :
        /\ DegradedRun(r)
        /\ run[r].op = "create"
        /\ run[r].skipped = {"u1"}
        /\ balance["u1"] + lpWeight["u1"] + burnPower["u1"] > 0
        /\ EntriesOfUser(rewards, run[r].blockID, "u1") = {}
        /\ Cardinality(EntriesOf(rewards, run[r].blockID)) = 2
        /\ AmountSum(rewards, EntriesOf(rewards, run[r].blockID)) = BlockReward

\* the inviters above a user, nearest first: inviter, inviter's inviter, ...
RECURSIVE ChainFrom(_, _)
ChainFrom(cur, n) ==
    IF cur = "none" \/ n = 0 THEN <<>>
    ELSE <<cur>> \o ChainFrom(invitedBy[cur], n - 1)

InviterChain(u) == ChainFrom(invitedBy[u], Cardinality(Users))

\* the registrations with a referrer whose ProcessReferral is over
EndedReferrals ==
    {u \in joined : login[u].pc \in {"done", "failed"} /\ login[u].referrer # "none"}

\* C31: when the propagation of a registration is over, AddTeamPower has been
\* applied to every ancestor on the new user's inviter chain except the one
\* whose write failed, the ancestors above the failed one included.
C31_PropagationSurvivesFailedWrite ==
    \A u \in EndedReferrals :
        \A a \in Range(InviterChain(u)) \ {login[u].failedAt} :
            a \in Range(login[u].trail)

C33_CurrentBlockAndCountdown ==
    /\ [][countdown.pc \in {"idle", "done"} /\ countdown' # countdown
               /\ countdown'.failed = "none" /\ OpenBlocks # {}
            => /\ countdown'.pc = "done"
               /\ countdown'.block \in OpenBlocks
               /\ countdown'.remaining =
                     blocks[countdown'.block].createdAt + MintBlockInterval - clock]_vars
    /\ [][countdown.pc = "last" /\ countdown'.pc = "done"
               /\ countdown'.failed = "none" /\ OpenBlocks = {}
            => /\ countdown'.block = 0
               /\ countdown'.remaining =
                     IF Len(blocks) = 0 THEN MintBlockInterval
                     ELSE blocks[Len(blocks)].createdAt + MintBlockInterval - clock]_vars

\* a call has returned an undistributed block, created one time unit before,
\* while an older, distributed block is stored
C33_Witness ==
    /\ countdown.pc = "done" /\ countdown.failed = "none"
    /\ countdown.block \in OpenBlocks
    /\ countdown.remaining = MintBlockInterval - 1
    /\ \E b \in 1..Len(blocks) : blocks[b].distributed

\* the operations so far are burns of u, and none is in progress
OnlyBurnsOf(u) ==
    \A p \in Ops :
        /\ op[p].pc \in {"idle", "done", "failed"}
        /\ op[p].pc # "idle" => op[p].kind = "burn" /\ op[p].userID = u

\* the total amount of the burns that returned without error
BurnedTotal == SeqSum([p \in Ops |-> IF op[p].kind = "burn" /\ op[p].pc = "done"
                                     THEN op[p].amount ELSE 0])

\* C38: when the only operations were BurnTokens calls of one user on the CAN
\* row and all have returned, the balance is the opening balance less the
\* total amount of the burns that succeeded, that total is at most the opening
\* balance, and the burn power gained equals it.
C38_BurnsNeverExceedBalance ==
    \A u \in OpUsers :
        OnlyBurnsOf(u) =>
            /\ balance[u] = OpeningLedger.bal[u] - BurnedTotal
            /\ BurnedTotal <= OpeningLedger.bal[u]
            /\ burnPower[u] = BurnedTotal

LiveWeight(u) == balance[u] + lpWeight[u] + burnPower[u]

\* C34: every step leaves the rows of weight_snapshots written so far as they
\* are (rows are only appended); a step that changes a balance, an LP weight
\* or a burn weight changes neither the snapshot table nor the reward entries;
\* and every reward entry carries the weight of the snapshot row of its block
\* and participant, with the share of the block reward that weight gives
\* among the block's snapshots.
C34_SnapshotsFrozen ==
    /\ [][/\ Len(snapshots') >= Len(snapshots)
          /\ SubSeq(snapshots', 1, Len(snapshots)) = snapshots
          /\ (balance' # balance \/ lpWeight' # lpWeight \/ burnPower' # burnPower)
                => snapshots' = snapshots /\ rewards' = rewards]_vars
    /\ [](\A i \in 1..Len(rewards) :
            LET e    == rewards[i]
                mine == SelectSeq(snapshots, LAMBDA s : s.blockID = e.blockID)
            IN  \E k \in 1..Len(mine) :
                    /\ mine[k].userID = e.userID
                    /\ UserWeight(mine[k]) = e.weightValue
                    /\ e.amount = Share(blocks[e.blockID].totalReward, e.weightValue,
                                        SeqSum([j \in 1..Len(mine) |-> UserWeight(mine[j])])))

\* a block's entry was computed after the participant's weight had changed:
\* the entry carries the snapshot's weight, which is not the stored weight
C34_Witness ==
    \E i \in 1..Len(rewards) :
        /\ rewards[i].weightValue # LiveWeight(rewards[i].userID)
        /\ \E p \in Ops : op[p].pc = "done" /\ op[p].userID = rewards[i].userID
        /\ \E k \in 1..Len(snapshots) :
              /\ snapshots[k].blockID = rewards[i].blockID
              /\ snapshots[k].userID = rewards[i].userID
              /\ UserWeight(snapshots[k]) = rewards[i].weightValue

\* C35: RecalculateTeamStats(p) leaves p's current node level as it was (and
\* nobody else's node row is touched).
C35_RecalculateKeepsLevel ==
    [][\A p \in Users : RecalculateTeamStats(p) => currentLevel' = currentLevel]_vars

\* C36: ProcessReferral for a new participant under referrer r leaves r's
\* accumulated team power, team member count and current node level as they
\* were when it stores the new direct referral, and its first propagation
\* step adds exactly the new participant's personal power, as the call has
\* read it, to r's team power.
C36_ReferralKeepsAccumulated ==
    [][/\ \A u \in Users, r \in Users :
            LoginBegin(u, r) =>
                /\ teamPower'[r] = teamPower[r]
                /\ teamMembers'[r] = teamMembers[r]
                /\ currentLevel'[r] = currentLevel[r]
       /\ (WalkAdd /\ walk.currentID = invitedBy[walk.userID]) =>
                teamPower'[walk.currentID] =
                    teamPower[walk.currentID] + walk.power]_vars

\* the ProcessReferral calls for referrer r that have stored their increment
StoredReferrals(r) ==
    {u \in joined : login[u].referrer = r /\ login[u].pc \notin {"getnode", "upsert"}}

\* C37: once no ProcessReferral call for referrer r stands between its read
\* and its write of r's node row, r's direct referral count is the number of
\* calls made for r, whatever their interleaving was.
C37_NoReferralLost ==
    \A r \in Users :
        (\A u \in Users : login[u].referrer = r => login[u].pc \notin {"getnode", "upsert"})
            => directReferrals[r] = Cardinality(StoredReferrals(r))

====
